---- MODULE Spec2Model ----
(***************************************************************************)
(* A model of the client-side caching and data-provider layer of the       *)
(* housing-data dashboard: the IndexedDB response cache                    *)
(* (src/utils/indexedDBCache.ts) and the read-through caching decorator    *)
(* BaseProvider (src/services/providers/base.provider.ts).                 *)
(*                                                                         *)
(* Time is Date.now() in milliseconds.  A cache key is the sequence of its *)
(* colon-separated parts: "mock:market-stats:Austin, TX" is                *)
(* <<"mock", "market-stats", "Austin, TX">>.  An optional numeric field    *)
(* that is undefined is written 0 (both are falsy in the code's || and     *)
(* truthiness tests).  Percentages are in tenths of a percent.             *)
(*                                                                         *)
(* IndexedDB runs the transactions on the one object store in the order    *)
(* they were created whenever one of them is a readwrite transaction, so   *)
(* the pending requests are a FIFO queue (txQueue) and a request together  *)
(* with its onsuccess / onerror callback is one step.                      *)
(***************************************************************************)
EXTENDS Integers, Sequences, FiniteSets, TLC

VARIABLES
    now,              \* Date.now()
    ticks,            \* how many times the clock has advanced (bounds the model)
    idb,              \* the browser's storage: "ok", "unavailable" (open fails), "failing" (requests fail)
    dbInstance,       \* IndexedDBCache.dbInstance is set
    initPromise,      \* IndexedDBCache.initPromise: "null", "pending", "fulfilled", "rejected"
    openCalls,        \* number of indexedDB.open calls made
    store,            \* the records of the object store 'api-responses'
    txQueue,          \* pending IndexedDB requests, oldest transaction first
    proc,             \* the asynchronous calls of the application, one per task
    observedExpired,  \* keys whose expiry a get has observed, until a set on the key is issued
    selection,        \* localStorage item 'housing-data-provider'
    envProvider,      \* import.meta.env.VITE_DATA_PROVIDER
    zillowKey,        \* import.meta.env.VITE_ZILLOW_METRICS_API_KEY
    providerType,     \* what the last getProviderType() returned
    provider,         \* the provider object the last createProvider() returned
    dataLoadAwaited,  \* the caller is past its await of provider.waitForDataLoad()
    apiKey,           \* import.meta.env.VITE_RENTCAST_API_KEY
    results,          \* useMarketSearch: the markets shown
    loading,          \* useMarketSearch: the loading flag
    searchError,      \* useMarketSearch: the error message shown (error)
    abortControllerRef, \* useMarketSearch: the controller in the ref (0: null)
    aborted,          \* the controllers abort() was called on
    latest,           \* the task and the query of the request started last
    debounceTimerRef, \* useMarketSearch: the id of the timer in the ref (0: null)
    timers,           \* the timers setTimeout has armed and that have neither fired nor been cleared
    searchLog,        \* the calls of search and clearResults and the calls of performSearch, in order
    csvFileName,      \* localStorage item 'csv-file-name'
    csvDataSource,    \* localStorage item 'csv-data-source'
    localStorageFull, \* localStorage.setItem throws (QuotaExceededError)
    fnInput,          \* the argument of the function under study
    fnOutput          \* what the function returned (Null before the call)

\* the provider in use and its configuration
providerVars == <<selection, envProvider, zillowKey, providerType, provider, dataLoadAwaited,
                  csvFileName, csvDataSource, localStorageFull>>

\* the localStorage items of the CSV provider
csvMetaVars == <<csvFileName, csvDataSource, localStorageFull>>

\* the state of the search hook
searchVars == <<apiKey, results, loading, searchError, abortControllerRef, aborted, latest>>

\* the debounce timer of the search hook
debounceVars == <<debounceTimerRef, timers, searchLog>>

\* a call of a function that keeps no state
fnVars == <<fnInput, fnOutput>>

\* the state of the application outside the cache, the provider object apart
besidesProvider == <<selection, envProvider, zillowKey, providerType, dataLoadAwaited,
                     csvMetaVars, searchVars, debounceVars, fnVars>>

\* the state of the application outside the cache
appVars == <<providerVars, searchVars, debounceVars, fnVars>>

vars == <<now, ticks, idb, dbInstance, initPromise, openCalls, store, txQueue, proc,
          observedExpired, appVars>>

-----------------------------------------------------------------------------
(* Bounds of the model *)

MaxTicks == 3

\* the bytes of the default file that the model lets the reader deliver
MaxBytes == 4

Procs == {1}

-----------------------------------------------------------------------------
(* Numbers: a time or a ttl is a natural number or Infinity *)

Infinity == 0 - 1

IsInf(x) == x = Infinity

\* JS a + b on non-negative numbers and Infinity
Plus(a, b) == IF IsInf(a) \/ IsInf(b) THEN Infinity ELSE a + b

\* a comparison that takes Infinity for an ordinary number
Gt_Finite(a, b) == a > b


\* JS a > b
Gt(a, b) == IF IsInf(a) THEN ~IsInf(b) ELSE IF IsInf(b) THEN FALSE ELSE a > b

CACHE_TTL_MARKET_STATS == 24 * 60 * 60 * 1000

CACHE_TTL_SEARCH == 1 * 60 * 60 * 1000

-----------------------------------------------------------------------------
(* Payloads *)

Null == [t |-> "null"]

Void == [t |-> "void"]

Num(n) == [t |-> "num", n |-> n]

Err(e) == [t |-> "error", e |-> e]

\* request.error of a failed IndexedDB request
RequestError == Err("IDBRequestError")

SaleData(avg, med, min, max) ==
    [present |-> TRUE, averagePrice |-> avg, medianPrice |-> med,
     minPrice |-> min, maxPrice |-> max]

MarketStats(id, city, saleData, avg, med, pct) ==
    [t |-> "stats", id |-> id, city |-> city, saleData |-> saleData,
     averagePrice |-> avg, medianPrice |-> med, percentChange |-> pct]

\* two results of a fetch for Austin that differ in their prices
StatsA == MarketStats("Austin-TX", "Austin", SaleData(577500, 550000, 275000, 1650000), 0, 0, 30)

StatsB == MarketStats("Austin-TX", "Austin", SaleData(588000, 560000, 280000, 1680000), 0, 0, 0 - 12)

\* a second market, of files that list more than one
StatsBoston == MarketStats("Boston-MA", "Boston", SaleData(735000, 700000, 350000, 2100000), 0, 0, 5)

\* a result with no price at all
StatsEmpty == MarketStats("Austin-TX", "Austin", SaleData(0, 0, 0, 0), 0, 0, 0)

\* a result with a price and a price change of 150 %
StatsSpike == MarketStats("Austin-TX", "Austin", SaleData(577500, 550000, 0, 0), 0, 0, 1500)

PropsNone == [t |-> "props", items |-> << >>]

PropsOne == [t |-> "props", items |-> <<"mock-Austin-0">>]

EmptyStats == [t |-> "cachestats", count |-> 0, keys |-> {},
               byType |-> [ty \in {"market-stats", "search", "property", "other"} |-> 0]]

-----------------------------------------------------------------------------
(* Cache records and the object store *)

DataTypes == {"market-stats", "search", "property", "other"}

\* key.startsWith('market-stats:') and so on: the first part of the key decides
getDataType(key) ==
    IF Len(key) > 1 /\ key[1] = "market-stats" THEN "market-stats"
    ELSE IF Len(key) > 1 /\ key[1] = "search" THEN "search"
    ELSE IF Len(key) > 1 /\ key[1] = "property" THEN "property"
    ELSE "other"

\* a record whose expiresAt leaves out the ttl
NewRecord_NoTtl(key, data, ttlMs, t, d) ==
    [key |-> key, data |-> data, timestamp |-> t, ttl |-> ttlMs,
     expiresAt |-> t + d, dataType |-> getDataType(key)]

\* the second Date.now() of set() is read d milliseconds after the first
NewRecord(key, data, ttlMs, t, d) ==
    [key |-> key, data |-> data, timestamp |-> t, ttl |-> ttlMs,
     expiresAt |-> Plus(t + d, ttlMs), dataType |-> getDataType(key)]

RecordsAt(s, key) == {r \in s : r.key = key}

HasRecord(s, key) == RecordsAt(s, key) # {}

RecordAt(s, key) == CHOOSE r \in RecordsAt(s, key) : TRUE

\* a put that adds the record beside the one already at its key
StorePut_Add(s, record) == s \cup {record}

\* store.put(record) on a store with keyPath 'key': the record replaces the one at its key
StorePut(s, record) == {r \in s : r.key # record.key} \cup {record}

\* store.delete(key)
StoreDelete(s, key) == {r \in s : r.key # key}

\* an expiry test against the time the record was stored
IsExpired_ByTimestamp(record, t) == Gt(t, record.timestamp)

\* get(): now > record.expiresAt
IsExpired(record, t) == Gt(t, record.expiresAt)

\* a cursor range that leaves out the records that expire at the upper bound
InCursorRange_Exclusive(record, upper) == Gt(upper, record.expiresAt)


\* clearExpired(): the cursor over IDBKeyRange.upperBound(now) on the index 'expiresAt'
InCursorRange(record, upper) == ~Gt(record.expiresAt, upper)

\* getStats(): count, keys and byType of the records getAll() returned
StatsOf(records) ==
    [t |-> "cachestats", count |-> Cardinality(records),
     keys |-> {r.key : r \in records},
     byType |-> [ty \in DataTypes |-> Cardinality({r \in records : r.dataType = ty})]]

-----------------------------------------------------------------------------
(* The asynchronous calls *)

Resolved(v) == [kind |-> "resolved", val |-> v]

Rejected(e) == [kind |-> "rejected", val |-> e]

CacheOps == {"get", "set", "remove", "clear", "clearExpired", "getStats", "getAge"}

IdleProc ==
    [call |-> "none",      \* the function the application called
     pc |-> "idle",        \* "idle", "waitDB", "waitReq", "fetching", "resumed", "done"
     cop |-> "none",       \* the IndexedDBCache method the call is in
     key |-> << >>, data |-> Null, ttl |-> 0,      \* its arguments
     prov |-> "none", arg |-> "", force |-> FALSE, \* provider, location or query, forceRefresh
     fetched |-> Null,     \* what the concrete fetch returned
     nGet |-> 0, nFetch |-> 0, nSet |-> 0,         \* calls of APICache.get, the fetch hook, APICache.set
     nRemove |-> 0,        \* calls of this.remove that the call's get() made
     snap |-> {},          \* observedExpired when the call was issued
     before |-> Null,      \* uploadCSVFile: the provider's data when the call was issued
     total |-> 0, loaded |-> 0,  \* loadDefaultCSV: the content-length and the bytes read
     ret |-> [kind |-> "none", val |-> Null]]

\* what the catch branch of each IndexedDBCache method returns
CatchResult(cop) ==
    CASE cop \in {"get", "getAge"} -> Null
      [] cop = "clearExpired" -> Num(0)
      [] cop = "getStats" -> EmptyStats
      [] OTHER -> Void

\* if (cached): an object or an array is truthy, null is not
Truthy(v) == v.t # "null"

\* The code after an awaited IndexedDBCache call that ended with outcome
AfterCache(pr, outcome) ==
    IF pr.call \in CacheOps
    THEN [pr EXCEPT !.pc = "done", !.ret = outcome]
    ELSE IF pr.call \in {"loadDataFromStorage", "uploadCSVFile", "performSearch"}
    THEN [pr EXCEPT !.pc = "resumed", !.ret = outcome]
    ELSE IF pr.cop = "get"
    THEN IF outcome.kind = "rejected"
         THEN [pr EXCEPT !.pc = "done", !.ret = outcome]
         ELSE IF Truthy(outcome.val)
         THEN [pr EXCEPT !.pc = "done", !.ret = Resolved(outcome.val)]
         ELSE [pr EXCEPT !.pc = "fetching", !.nFetch = @ + 1]
    ELSE IF outcome.kind = "rejected"
         THEN [pr EXCEPT !.pc = "done", !.ret = outcome]
         ELSE [pr EXCEPT !.pc = "done", !.ret = Resolved(pr.fetched)]

NoRecord == [key |-> << >>]

\* The request a method puts on its transaction; set() builds its record here,
\* reading Date.now() at t and again d milliseconds later
MakeRequest(pr, p, t, d) ==
    [op |-> CASE pr.cop \in {"get", "getAge"} -> "get"
              [] pr.cop = "set" -> "put"
              [] pr.cop = "remove" -> "delete"
              [] pr.cop = "clear" -> "clear"
              [] pr.cop = "clearExpired" -> "cursor"
              [] OTHER -> "getAll",
     key |-> pr.key,
     rec |-> IF pr.cop = "set" THEN NewRecord(pr.key, pr.data, pr.ttl, t, d) ELSE NoRecord,
     upper |-> IF pr.cop = "clearExpired" THEN t ELSE 0,
     owner |-> p]

\* a new transaction that runs before the transactions created earlier
Issue_First(queue, request) == <<request>> \o queue

\* db.transaction([storeName], mode): transactions on the one object store run in
\* the order in which they were created
Issue(queue, request) == Append(queue, request)

\* db.transaction(...) and the request, once getDB() has given the handle
Enqueue(p, pr, d) ==
    /\ d \in {0, 1}
    /\ d = 1 => pr.cop = "set" /\ ticks < MaxTicks
    /\ txQueue' = Issue(txQueue, MakeRequest(pr, p, now, d))
    /\ proc' = [proc EXCEPT ![p] = [pr EXCEPT !.pc = "waitReq"]]
    /\ now' = now + d
    /\ ticks' = ticks + d

\* an initDB() that does not look at the initialisation in progress
InitInProgress_Never(ip) == FALSE

\* initDB(): if (this.initPromise) return this.initPromise
InitInProgress(ip) == ip # "null"

\* initDB() / getDB() at the start of every IndexedDBCache method
BeginCache(p, base, cop, key, data, ttlMs, d) ==
    LET pr == [base EXCEPT !.cop = cop, !.key = key, !.data = data, !.ttl = ttlMs] IN
    /\ observedExpired' = IF cop = "set" THEN observedExpired \ {key} ELSE observedExpired
    /\ IF dbInstance
       THEN /\ Enqueue(p, pr, d)
            /\ UNCHANGED <<initPromise, openCalls>>
       ELSE /\ d = 0
            /\ UNCHANGED <<txQueue, now, ticks>>
            /\ IF initPromise = "rejected"
               THEN /\ proc' = [proc EXCEPT ![p] = AfterCache(pr, Resolved(CatchResult(cop)))]
                    /\ UNCHANGED <<initPromise, openCalls>>
               ELSE /\ proc' = [proc EXCEPT ![p] = [pr EXCEPT !.pc = "waitDB"]]
                    /\ IF ~InitInProgress(initPromise)
                       THEN initPromise' = "pending" /\ openCalls' = openCalls + 1
                       ELSE UNCHANGED <<initPromise, openCalls>>

\* request.onsuccess of indexedDB.open
OpenSucceeds ==
    /\ initPromise = "pending"
    /\ idb # "unavailable"
    /\ dbInstance' = TRUE
    /\ initPromise' = "fulfilled"
    /\ UNCHANGED <<appVars, now, ticks, idb, openCalls, store, txQueue, proc, observedExpired>>

\* request.onerror of indexedDB.open, or indexedDB undefined
OpenFails ==
    /\ initPromise = "pending"
    /\ idb = "unavailable"
    /\ initPromise' = "rejected"
    /\ UNCHANGED <<appVars, now, ticks, idb, dbInstance, openCalls, store, txQueue, proc, observedExpired>>

\* await this.getDB() resumes with the handle
DBReady(p, d) ==
    /\ proc[p].pc = "waitDB"
    /\ initPromise = "fulfilled"
    /\ Enqueue(p, proc[p], d)
    /\ UNCHANGED <<appVars, idb, dbInstance, initPromise, openCalls, store, observedExpired>>

\* await this.getDB() throws: the catch branch
DBFailed(p) ==
    /\ proc[p].pc = "waitDB"
    /\ initPromise = "rejected"
    /\ proc' = [proc EXCEPT ![p] = AfterCache(proc[p], Resolved(CatchResult(proc[p].cop)))]
    /\ UNCHANGED <<appVars, now, ticks, idb, dbInstance, initPromise, openCalls, store, txQueue,
                   observedExpired>>

Front == txQueue[1]

\* resolve / reject of the promise the owner of a request awaits; the delete
\* that get() starts without awaiting it has no owner (0)
Deliver(owner, outcome) ==
    proc' = IF owner = 0 THEN proc
            ELSE [proc EXCEPT ![owner] = AfterCache(proc[owner], outcome)]

\* request.onerror: reject(request.error)
ReqError ==
    /\ txQueue # << >>
    /\ idb = "failing"
    /\ txQueue' = Tail(txQueue)
    /\ Deliver(Front.owner, Rejected(RequestError))
    /\ UNCHANGED <<appVars, now, ticks, idb, dbInstance, initPromise, openCalls, store, observedExpired>>

\* a get() that leaves the expired record to a later clearExpired()
EvictionRequests_None(key) == << >>

\* this.remove(key) in get(): not awaited, so the delete has no owner (0); its
\* transaction is created before the caller of get() runs again
EvictionRequests(key) ==
    <<[op |-> "delete", key |-> key, rec |-> NoRecord, upper |-> 0, owner |-> 0]>>

\* get(): request.onsuccess of store.get(key)
ExecGet ==
    /\ txQueue # << >>
    /\ idb = "ok"
    /\ Front.op = "get"
    /\ proc[Front.owner].cop = "get"
    /\ IF ~HasRecord(store, Front.key)
       THEN /\ Deliver(Front.owner, Resolved(Null))
            /\ txQueue' = Tail(txQueue)
            /\ UNCHANGED observedExpired
       ELSE IF IsExpired(RecordAt(store, Front.key), now)
       THEN /\ txQueue' = Tail(txQueue) \o EvictionRequests(Front.key)
            /\ observedExpired' = observedExpired \cup {Front.key}
            /\ proc' = [proc EXCEPT ![Front.owner] =
                            AfterCache([proc[Front.owner] EXCEPT !.nRemove = @ + 1],
                                       Resolved(Null))]
       ELSE /\ Deliver(Front.owner, Resolved(RecordAt(store, Front.key).data))
            /\ txQueue' = Tail(txQueue)
            /\ UNCHANGED observedExpired
    /\ UNCHANGED <<appVars, now, ticks, idb, dbInstance, initPromise, openCalls, store>>

\* getAge(): request.onsuccess of store.get(key)
ExecGetAge ==
    /\ txQueue # << >>
    /\ idb = "ok"
    /\ Front.op = "get"
    /\ proc[Front.owner].cop = "getAge"
    /\ Deliver(Front.owner,
               IF HasRecord(store, Front.key)
               THEN Resolved(Num(now - RecordAt(store, Front.key).timestamp))
               ELSE Resolved(Null))
    /\ txQueue' = Tail(txQueue)
    /\ UNCHANGED <<appVars, now, ticks, idb, dbInstance, initPromise, openCalls, store, observedExpired>>

\* set(): request.onsuccess of store.put(record)
ExecPut ==
    /\ txQueue # << >>
    /\ idb = "ok"
    /\ Front.op = "put"
    /\ store' = StorePut(store, Front.rec)
    /\ Deliver(Front.owner, Resolved(Void))
    /\ txQueue' = Tail(txQueue)
    /\ UNCHANGED <<appVars, now, ticks, idb, dbInstance, initPromise, openCalls, observedExpired>>

\* remove(): request.onsuccess of store.delete(key)
ExecDelete ==
    /\ txQueue # << >>
    /\ idb = "ok"
    /\ Front.op = "delete"
    /\ store' = StoreDelete(store, Front.key)
    /\ Deliver(Front.owner, Resolved(Void))
    /\ txQueue' = Tail(txQueue)
    /\ UNCHANGED <<appVars, now, ticks, idb, dbInstance, initPromise, openCalls, observedExpired>>

\* clear(): request.onsuccess of store.clear()
ExecClear ==
    /\ txQueue # << >>
    /\ idb = "ok"
    /\ Front.op = "clear"
    /\ store' = {}
    /\ Deliver(Front.owner, Resolved(Void))
    /\ txQueue' = Tail(txQueue)
    /\ UNCHANGED <<appVars, now, ticks, idb, dbInstance, initPromise, openCalls, observedExpired>>

\* clearExpired(): the cursor deletes every record in its range and counts them,
\* all inside one readwrite transaction
ExecCursor ==
    /\ txQueue # << >>
    /\ idb = "ok"
    /\ Front.op = "cursor"
    /\ store' = {r \in store : ~InCursorRange(r, Front.upper)}
    /\ Deliver(Front.owner,
               Resolved(Num(Cardinality({r \in store : InCursorRange(r, Front.upper)}))))
    /\ txQueue' = Tail(txQueue)
    /\ UNCHANGED <<appVars, now, ticks, idb, dbInstance, initPromise, openCalls, observedExpired>>

\* getStats(): request.onsuccess of store.getAll()
ExecGetAll ==
    /\ txQueue # << >>
    /\ idb = "ok"
    /\ Front.op = "getAll"
    /\ Deliver(Front.owner, Resolved(StatsOf(store)))
    /\ txQueue' = Tail(txQueue)
    /\ UNCHANGED <<appVars, now, ticks, idb, dbInstance, initPromise, openCalls, store, observedExpired>>

\* The application takes the result of a finished call
Finish(p) ==
    /\ proc[p].pc = "done"
    /\ proc' = [proc EXCEPT ![p] = IdleProc]
    /\ UNCHANGED <<appVars, now, ticks, idb, dbInstance, initPromise, openCalls, store, txQueue,
                   observedExpired>>

\* Time passes
Tick(d) ==
    /\ ticks < MaxTicks
    /\ now' = now + d
    /\ ticks' = ticks + 1
    /\ UNCHANGED <<appVars, idb, dbInstance, initPromise, openCalls, store, txQueue, proc,
                   observedExpired>>

\* The storage starts to fail its requests (quota exceeded, disk error)
StorageFault ==
    /\ idb = "ok"
    /\ idb' = "failing"
    /\ UNCHANGED <<appVars, now, ticks, dbInstance, initPromise, openCalls, store, txQueue, proc,
                   observedExpired>>

-----------------------------------------------------------------------------
(* Direct calls of the cache (CacheManager, the CSV provider, the migration) *)

\* keys of the cache's direct users
DirectKeys == {<<"market-stats", "Detroit, MI">>, <<"csv-parsed-markets">>}

DirectData == {StatsA, StatsB}

DirectTtls == {1, 2, Infinity}

CallCache(p, cop, key, data, ttlMs, d) ==
    /\ proc[p].pc = "idle"
    /\ BeginCache(p, [IdleProc EXCEPT !.call = cop, !.snap = observedExpired],
                  cop, key, data, ttlMs, d)
    /\ UNCHANGED <<appVars, idb, dbInstance, store>>

CallGet(p, key) == CallCache(p, "get", key, Null, 0, 0)

CallSet(p, key, data, ttlMs, d) == CallCache(p, "set", key, data, ttlMs, d)

CallRemove(p, key) == CallCache(p, "remove", key, Null, 0, 0)

CallClear(p) == CallCache(p, "clear", << >>, Null, 0, 0)

CallClearExpired(p) == CallCache(p, "clearExpired", << >>, Null, 0, 0)

CallGetStats(p) == CallCache(p, "getStats", << >>, Null, 0, 0)

CallGetAge(p, key) == CallCache(p, "getAge", key, Null, 0, 0)

-----------------------------------------------------------------------------
(* The providers and BaseProvider's read-through caching *)

\* a provider table in which every provider supports the property search
ProviderInfo_AllSearch(id) == [id |-> id, name |-> id, propertySearch |-> TRUE]

\* info.name and info.features.propertySearch of each provider
ProviderInfo(id) ==
    CASE id = "mock" -> [id |-> "mock", name |-> "Mock Data", propertySearch |-> TRUE]
      [] id = "csv" -> [id |-> "csv", name |-> "CSV File", propertySearch |-> FALSE]
      [] OTHER -> [id |-> "zillow-metrics", name |-> "Zillow Market Metrics",
                   propertySearch |-> FALSE]

\* String.prototype.toLowerCase on the queries of the model
toLowerCase(s) ==
    CASE s = "Austin" -> "austin"
      [] s = "AUSTIN" -> "austin"
      [] s = "Austin, TX" -> "austin, tx"
      [] s = "Austin-TX" -> "austin-tx"
      [] s = "Boston, MA" -> "boston, ma"
      [] s = "Boston-MA" -> "boston-ma"
      [] OTHER -> s

\* a key that leaves out the provider
getMarketStatsCacheKey_NoProvider(id, location) == <<"market-stats", location>>

getMarketStatsCacheKey(id, location) == <<id, "market-stats", location>>

\* a key that keeps the letter case of the query
getPropertySearchCacheKey_CaseSensitive(id, query) == <<id, "search", query>>

getPropertySearchCacheKey(id, query) == <<id, "search", toLowerCase(query)>>

\* stats.saleData?.averagePrice || stats.saleData?.medianPrice ||
\* stats.averagePrice || stats.medianPrice
hasValidData(stats) ==
    \/ stats.saleData.present /\ stats.saleData.averagePrice # 0
    \/ stats.saleData.present /\ stats.saleData.medianPrice # 0
    \/ stats.averagePrice # 0
    \/ stats.medianPrice # 0

\* every result that is not null is cached
ShouldCacheStats_AnyResult(stats) == stats # Null

\* if (stats) { if (hasValidData) ... }
ShouldCacheStats(stats) == stats # Null /\ hasValidData(stats)

\* if (properties && properties.length > 0)
ShouldCacheProperties(properties) == properties # Null /\ Len(properties.items) > 0

\* a catch branch that throws an error of its own
Rethrow_Wrapped(error) == Rejected(Err("Failed to fetch market data"))

\* throw error in the catch branch of getMarketStats / searchProperties
Rethrow(error) == Rejected(error)

UnsupportedError(id) == Err(<<ProviderInfo(id).name, "does not support property search">>)

\* what the application asks for: market statistics of the mock provider,
\* property searches of the mock, the CSV and the Zillow metrics provider
MarketStatsProviders == {"mock"}

SearchProviders == {"mock", "csv", "zillow-metrics"}

Locations == {"Austin, TX"}

Queries == {"Austin"}

\* what the concrete fetch hooks may return or throw
FetchResults == {Null, StatsA, StatsB, StatsEmpty, StatsSpike}

PropertyResults == {PropsNone, PropsOne}

FetchErrors == {Err("Network Error"), Err("Request failed with status code 429")}

\* getMarketStats(location, forceRefresh) up to its first await
CallGetMarketStats(p, id, location, forceRefresh) ==
    LET base == [IdleProc EXCEPT !.call = "getMarketStats", !.prov = id, !.arg = location,
                                 !.force = forceRefresh,
                                 !.key = getMarketStatsCacheKey(id, location)] IN
    /\ proc[p].pc = "idle"
    /\ IF ~forceRefresh
       THEN BeginCache(p, [base EXCEPT !.nGet = 1], "get", base.key, Null, 0, 0)
       ELSE /\ proc' = [proc EXCEPT ![p] = [base EXCEPT !.pc = "fetching", !.nFetch = 1]]
            /\ UNCHANGED <<now, ticks, initPromise, openCalls, txQueue, observedExpired>>
    /\ UNCHANGED <<appVars, idb, dbInstance, store>>

\* searchProperties(query, forceRefresh) up to its first await
CallSearchProperties(p, id, query, forceRefresh) ==
    LET base == [IdleProc EXCEPT !.call = "searchProperties", !.prov = id, !.arg = query,
                                 !.force = forceRefresh,
                                 !.key = getPropertySearchCacheKey(id, query)] IN
    /\ proc[p].pc = "idle"
    /\ IF ~ProviderInfo(id).propertySearch
       THEN /\ proc' = [proc EXCEPT ![p] = [base EXCEPT !.pc = "done",
                                                        !.ret = Rejected(UnsupportedError(id))]]
            /\ UNCHANGED <<now, ticks, initPromise, openCalls, txQueue, observedExpired>>
       ELSE IF ~forceRefresh
       THEN BeginCache(p, [base EXCEPT !.nGet = 1], "get", base.key, Null, 0, 0)
       ELSE /\ proc' = [proc EXCEPT ![p] = [base EXCEPT !.pc = "fetching", !.nFetch = 1]]
            /\ UNCHANGED <<now, ticks, initPromise, openCalls, txQueue, observedExpired>>
    /\ UNCHANGED <<appVars, idb, dbInstance, store>>

\* fetchMarketStatsFromAPI returns stats: the rest of the try block up to await APICache.set
FetchReturns(p, stats) ==
    /\ proc[p].pc = "fetching"
    /\ proc[p].call = "getMarketStats"
    /\ IF ShouldCacheStats(stats)
       THEN BeginCache(p, [proc[p] EXCEPT !.fetched = stats, !.nSet = @ + 1],
                       "set", proc[p].key, stats, CACHE_TTL_MARKET_STATS, 0)
       ELSE /\ proc' = [proc EXCEPT ![p] = [proc[p] EXCEPT !.fetched = stats, !.pc = "done",
                                                           !.ret = Resolved(stats)]]
            /\ UNCHANGED <<now, ticks, initPromise, openCalls, txQueue, observedExpired>>
    /\ UNCHANGED <<appVars, idb, dbInstance, store>>

\* fetchPropertiesFromAPI returns properties
FetchPropertiesReturns(p, properties) ==
    /\ proc[p].pc = "fetching"
    /\ proc[p].call = "searchProperties"
    /\ IF ShouldCacheProperties(properties)
       THEN BeginCache(p, [proc[p] EXCEPT !.fetched = properties, !.nSet = @ + 1],
                       "set", proc[p].key, properties, CACHE_TTL_SEARCH, 0)
       ELSE /\ proc' = [proc EXCEPT ![p] = [proc[p] EXCEPT !.fetched = properties,
                                                           !.pc = "done",
                                                           !.ret = Resolved(properties)]]
            /\ UNCHANGED <<now, ticks, initPromise, openCalls, txQueue, observedExpired>>
    /\ UNCHANGED <<appVars, idb, dbInstance, store>>

\* the concrete fetch throws: catch (error) { ...; throw error; }
FetchThrows(p, error) ==
    /\ proc[p].pc = "fetching"
    /\ proc' = [proc EXCEPT ![p] = [proc[p] EXCEPT !.fetched = error, !.pc = "done",
                                                    !.ret = Rethrow(error)]]
    /\ UNCHANGED <<appVars, now, ticks, idb, dbInstance, initPromise, openCalls, store, txQueue,
                   observedExpired>>

-----------------------------------------------------------------------------
(* The validation gate of the application (utils/dataTransform.ts) *)

Abs(x) == IF x < 0 THEN 0 - x ELSE x

\* a percentage beyond every bound: the Infinity of a division by zero
HugePercent == 1000 * 1000 * 1000

\* (range / currentPrice) * 100, in tenths of a percent; 0 is also NaN (0 / 0), and a
\* quotient that is not zero stays not zero
RangePercent(range, currentPrice) ==
    IF currentPrice = 0
    THEN IF range = 0 THEN 0 ELSE IF range > 0 THEN HugePercent ELSE 0 - HugePercent
    ELSE LET q == (Abs(range) * 1000) \div Abs(currentPrice)
             m == IF q = 0 /\ range # 0 THEN 1 ELSE q
         IN IF (range < 0) # (currentPrice < 0) THEN 0 - m ELSE m

\* const saleData = stats.saleData || stats
SaleView(stats) ==
    IF stats.saleData.present THEN stats.saleData
    ELSE [present |-> TRUE, averagePrice |-> stats.averagePrice,
          medianPrice |-> stats.medianPrice, minPrice |-> 0, maxPrice |-> 0]

transformToMarketPriceData(marketId, marketName, stats) ==
    LET saleData == SaleView(stats)
        currentPrice == IF saleData.medianPrice # 0 THEN saleData.medianPrice
                        ELSE saleData.averagePrice
        given == stats.percentChange
        estimated == IF given = 0 /\ saleData.minPrice # 0 /\ saleData.maxPrice # 0
                     THEN RangePercent(saleData.maxPrice - saleData.minPrice, currentPrice)
                     ELSE given
        priceChange == IF estimated = 0 THEN 35 ELSE estimated
    IN [marketId |-> marketId, marketName |-> marketName, currentPrice |-> currentPrice,
        priceChange |-> Abs(priceChange),
        changeDirection |-> IF priceChange > 0 THEN "up"
                            ELSE IF priceChange < 0 THEN "down" ELSE "neutral"]

validateMarketData(data) ==
    /\ data.marketId # ""
    /\ data.marketName # ""
    /\ data.currentPrice > 0
    /\ data.currentPrice < 100000000
    /\ Abs(data.priceChange) < 1000
    /\ data.changeDirection \in {"up", "down", "neutral"}

TickSteps == {1, CACHE_TTL_SEARCH, CACHE_TTL_MARKET_STATS}

-----------------------------------------------------------------------------
(* The provider factory (services/providers/factory.ts) *)

\* a string that may be missing: a localStorage item (null) or an env variable (undefined)
NoItem == [present |-> FALSE, value |-> ""]

Item(v) == [present |-> TRUE, value |-> v]

\* if (storedProvider), x || 'mock': null, undefined and '' are falsy
StringTruthy(item) == item.present /\ item.value # ""

\* a resolution that looks at the build-time default first
getProviderType_EnvFirst(stored, env) ==
    IF StringTruthy(env) THEN env.value
    ELSE IF StringTruthy(stored) THEN stored.value ELSE "mock"

getProviderType(stored, env) ==
    IF StringTruthy(stored) THEN stored.value
    ELSE IF StringTruthy(env) THEN env.value ELSE "mock"

\* new Map()
EmptyMap == [k \in {} |-> Null]

NoProvider == [class |-> "none", accessToken |-> "", isDataLoaded |-> FALSE,
               cachedMarkets |-> EmptyMap, loadingPromise |-> "null", loadingProgress |-> 0]

\* new MockProvider()
NewMockProvider == [NoProvider EXCEPT !.class = "MockProvider"]

\* new ZillowMetricsProvider(): accessToken = VITE_ZILLOW_METRICS_API_KEY || ''
NewZillowMetricsProvider(key) ==
    [NoProvider EXCEPT !.class = "ZillowMetricsProvider", !.accessToken = key]

\* new CSVProvider(): nothing is loaded yet, the constructor has started the load
NewCSVProvider == [NoProvider EXCEPT !.class = "CSVProvider", !.loadingPromise = "pending"]

\* isConfigured() of the three provider classes
isConfigured(prov) ==
    CASE prov.class = "MockProvider" -> TRUE
      [] prov.class = "ZillowMetricsProvider" -> prov.accessToken # ""
      [] prov.class = "CSVProvider" -> prov.isDataLoaded /\ DOMAIN prov.cachedMarkets # {}
      [] OTHER -> FALSE

createZillowMetricsProvider(key) ==
    IF ~isConfigured(NewZillowMetricsProvider(key)) THEN NewMockProvider
    ELSE NewZillowMetricsProvider(key)

createRentCastProvider == NewMockProvider

\* the provider is returned whether it is configured or not
createCSVProvider == NewCSVProvider

\* a factory that knows the RentCast id as a provider of its own
createProviderOfType_RentCast(type, key) ==
    [NoProvider EXCEPT !.class = IF type \in {"mock", "csv", "zillow-metrics"}
                                 THEN "MockProvider" ELSE "RentCastProvider"]

\* the switch of createProvider()
createProviderOfType(type, key) ==
    CASE type = "zillow-metrics" -> createZillowMetricsProvider(key)
      [] type = "rentcast" -> createRentCastProvider
      [] type = "csv" -> createCSVProvider
      [] OTHER -> NewMockProvider

createProvider(stored, env, key) == createProviderOfType(getProviderType(stored, env), key)

\* the provider ids the selector offers, an id of an earlier version, and no item
StoredSelections ==
    {NoItem, Item("mock"), Item("csv"), Item("zillow-metrics"), Item("rentcast"),
     Item("realtor")}

\* VITE_DATA_PROVIDER: unset, empty, or an id
EnvProviders ==
    {NoItem, Item(""), Item("mock"), Item("csv"), Item("zillow-metrics"), Item("rentcast"),
     Item("attom")}

ZillowKeys == {"", "test-key"}

-----------------------------------------------------------------------------

(* The CSV provider (services/providers/csv.provider.ts) *)

CSV_MARKETS_STORAGE_KEY == <<"csv-parsed-markets">>

\* the name loadDefaultCSV() stores for the bundled file
DEFAULT_CSV_FILENAME == "default-housing-data.csv"

\* the task that runs the load the constructor of CSVProvider starts
Loader == 2

Markets(items) == [t |-> "markets", items |-> items]

\* the lookup keys cacheMarkets() derives from city and state of a market:
\* "City, ST", "City-ST" and their lower-case forms
LookupKeys(market) ==
    IF market.id = "Austin-TX"
    THEN {"Austin, TX", toLowerCase("Austin, TX"), "Austin-TX", toLowerCase("Austin-TX")}
    ELSE IF market.id = "Boston-MA"
    THEN {"Boston, MA", toLowerCase("Boston, MA"), "Boston-MA", toLowerCase("Boston-MA")}
    ELSE {}

\* cacheMarkets(): the map is cleared and every key is set in the order of the
\* markets, so a later market replaces an earlier one at the same key
cacheMarkets(items) ==
    LET keys == UNION {LookupKeys(items[i]) : i \in 1..Len(items)}
        last(k) == CHOOSE i \in 1..Len(items) :
                       /\ k \in LookupKeys(items[i])
                       /\ \A j \in 1..Len(items) : k \in LookupKeys(items[j]) => j <= i
    IN [k \in keys |-> items[last(k)]]

\* getAllMarkets(): the markets held by the lookup map, the first one met for each
\* id (the keys of a market derive from what its id derives from, so the keys that
\* hold markets of one id all hold the market written last)
getAllMarkets(prov) ==
    LET held == {prov.cachedMarkets[k] : k \in DOMAIN prov.cachedMarkets} IN
    IF ~prov.isDataLoaded THEN {}
    ELSE {CHOOSE market \in held : market.id = id : id \in {market.id : market \in held}}

\* cachedMarkets && cachedMarkets.length > 0
HasMarkets(v) == v.t = "markets" /\ Len(v.items) > 0

\* this.cacheMarkets(markets); this.isDataLoaded = true
WithMarkets(prov, items) ==
    [prov EXCEPT !.cachedMarkets = cacheMarkets(items), !.isDataLoaded = TRUE]

\* the end of clearData(): this.cachedMarkets.clear(); this.isDataLoaded = false
Cleared(prov) == [prov EXCEPT !.cachedMarkets = EmptyMap, !.isDataLoaded = FALSE]

\* this.loadDataFromStorage().catch(error => console.error(...)): the stored promise
\* is fulfilled whether the load resolved or rejected
CatchLogged(kind) == "fulfilled"

\* a provider that answers with a price-less placeholder while nothing is loaded
fetchMarketStatsFromCSV_Placeholder(prov, location) ==
    IF ~prov.isDataLoaded THEN StatsEmpty
    ELSE IF location \in DOMAIN prov.cachedMarkets THEN prov.cachedMarkets[location]
    ELSE Null

\* fetchMarketStatsFromAPI of the CSV provider: cachedMarkets.get(location), then
\* cachedMarkets.get(location.toLowerCase()), null when nothing is loaded
fetchMarketStatsFromCSV(prov, location) ==
    IF ~prov.isDataLoaded THEN Null
    ELSE IF location \in DOMAIN prov.cachedMarkets THEN prov.cachedMarkets[location]
    ELSE IF toLowerCase(location) \in DOMAIN prov.cachedMarkets
         THEN prov.cachedMarkets[toLowerCase(location)]
    ELSE Null

\* what parseCSV can make of the default file or of an uploaded file
ParsedFiles == {<<StatsA>>, <<StatsB, StatsBoston>>}

CsvLocations == {"Austin, TX", "Boston, MA"}


\* getProviderType(): the stored selection, else the build-time default
CallGetProviderType ==
    /\ providerType' = Item(getProviderType(selection, envProvider))
    /\ UNCHANGED <<now, ticks, idb, dbInstance, initPromise, openCalls, store, txQueue, proc,
                   observedExpired, selection, envProvider, zillowKey, provider,
                   dataLoadAwaited, csvMetaVars, searchVars, debounceVars, fnVars>>

\* createProvider() on a page load; the constructor of a CSVProvider runs
\* loadDataFromStorage() up to its await of IndexedDBCache.get
CallCreateProvider ==
    LET prov == createProvider(selection, envProvider, zillowKey) IN
    /\ \A p \in DOMAIN proc : proc[p].pc = "idle"
    /\ provider' = prov
    /\ dataLoadAwaited' = FALSE
    /\ IF prov.class = "CSVProvider"
       THEN BeginCache(Loader, [IdleProc EXCEPT !.call = "loadDataFromStorage"],
                       "get", CSV_MARKETS_STORAGE_KEY, Null, 0, 0)
       ELSE UNCHANGED <<now, ticks, initPromise, openCalls, txQueue, proc, observedExpired>>
    /\ UNCHANGED <<idb, dbInstance, store, selection, envProvider, zillowKey, providerType,
                   csvMetaVars, searchVars, debounceVars, fnVars>>

\* Math.round((loaded / total) * 90)
DownloadProgress(loaded, total) == (2 * loaded * 90 + total) \div (2 * total)

\* this.loadingProgress = value
WithProgress(prov, value) == [prov EXCEPT !.loadingProgress = value]

\* the load task is back from an awaited IndexedDBCache call
LoaderResumed(cops, kind) ==
    /\ Loader \in DOMAIN proc
    /\ proc[Loader].pc = "resumed"
    /\ proc[Loader].cop \in cops
    /\ proc[Loader].ret.kind = kind

\* the load task ends and the promise the constructor stored settles
LoadSettles(prov, kind) ==
    /\ provider' = [prov EXCEPT !.loadingPromise = CatchLogged(kind)]
    /\ proc' = [proc EXCEPT ![Loader] = IdleProc]
    /\ UNCHANGED <<now, ticks, idb, dbInstance, initPromise, openCalls, store, txQueue,
                   observedExpired, selection, envProvider, zillowKey, providerType,
                   dataLoadAwaited, localStorageFull, searchVars, debounceVars, fnVars>>

\* loadDataFromStorage(): the parsed markets were in the cache
LoadedFromStorage ==
    /\ LoaderResumed({"get"}, "resolved")
    /\ HasMarkets(proc[Loader].ret.val)
    /\ LoadSettles(WithMarkets(provider, proc[Loader].ret.val.items), "resolved")
    /\ UNCHANGED <<csvFileName, csvDataSource>>

\* loadDataFromStorage(): nothing cached, await this.loadDefaultCSV() up to its fetch
LoadDefaultCSV ==
    /\ LoaderResumed({"get"}, "resolved")
    /\ ~HasMarkets(proc[Loader].ret.val)
    /\ proc' = [proc EXCEPT ![Loader].pc = "fetchingCSV"]
    /\ provider' = WithProgress(provider, 0)
    /\ UNCHANGED <<besidesProvider, now, ticks, idb, dbInstance, initPromise, openCalls, store,
                   txQueue, observedExpired>>

\* loadDefaultCSV(): the response of fetch(DEFAULT_CSV_PATH) is ok; total is its
\* content-length, 0 when the header is missing; the body is read chunk by chunk
ResponseArrives(total) ==
    /\ Loader \in DOMAIN proc
    /\ proc[Loader].pc = "fetchingCSV"
    /\ proc' = [proc EXCEPT ![Loader].pc = "reading", ![Loader].total = total,
                            ![Loader].loaded = 0]
    /\ UNCHANGED <<appVars, now, ticks, idb, dbInstance, initPromise, openCalls, store,
                   txQueue, observedExpired>>

\* loadDefaultCSV(): reader.read() delivers a chunk of n bytes
ChunkRead(n) ==
    /\ Loader \in DOMAIN proc
    /\ proc[Loader].pc = "reading"
    /\ proc[Loader].loaded + n <= MaxBytes
    /\ proc' = [proc EXCEPT ![Loader].loaded = proc[Loader].loaded + n]
    /\ provider' = IF proc[Loader].total > 0
                   THEN WithProgress(provider,
                                     DownloadProgress(proc[Loader].loaded + n, proc[Loader].total))
                   ELSE provider
    /\ UNCHANGED <<besidesProvider, now, ticks, idb, dbInstance, initPromise, openCalls, store,
                   txQueue, observedExpired>>

\* loadDefaultCSV(): the file was downloaded (the reader is done, or the response has
\* no body), validated and parsed into markets: loadingProgress = 90, then
\* await IndexedDBCache.set(CSV_MARKETS_STORAGE_KEY, markets, Infinity)
DefaultCSVParsed(items) ==
    /\ Loader \in DOMAIN proc
    /\ proc[Loader].pc \in {"fetchingCSV", "reading"}
    /\ BeginCache(Loader, proc[Loader], "set", CSV_MARKETS_STORAGE_KEY, Markets(items),
                  Infinity, 0)
    /\ provider' = WithProgress(provider, 90)
    /\ UNCHANGED <<besidesProvider, idb, dbInstance, store>>

\* clearData() up to its await of IndexedDBCache.remove, entered from the catch of
\* loadDataFromStorage(); the catch of loadDefaultCSV() has set loadingProgress = 0
\* before (a failure before loadDefaultCSV() leaves it at its initial 0)
BeginClearData ==
    /\ BeginCache(Loader, proc[Loader], "remove", CSV_MARKETS_STORAGE_KEY, Null, 0, 0)
    /\ provider' = WithProgress(provider, 0)
    /\ UNCHANGED <<besidesProvider, idb, dbInstance, store>>

\* loadDefaultCSV() throws (download failed, a read of the body failed, invalid
\* content, no markets): the catch of loadDataFromStorage() calls clearData()
DefaultCSVFails ==
    /\ Loader \in DOMAIN proc
    /\ proc[Loader].pc \in {"fetchingCSV", "reading"}
    /\ BeginClearData

\* IndexedDBCache.get or IndexedDBCache.set rejected: the catch calls clearData()
LoadFailed ==
    /\ LoaderResumed({"get", "set"}, "rejected")
    /\ BeginClearData

\* loadDefaultCSV() after the set: the file name and the data source are stored,
\* cacheMarkets(markets), isDataLoaded = true; when localStorage.setItem throws, the
\* catch of loadDataFromStorage() calls clearData()
DefaultCSVStored ==
    /\ LoaderResumed({"set"}, "resolved")
    /\ IF localStorageFull
       THEN BeginClearData
       ELSE /\ csvFileName' = Item(DEFAULT_CSV_FILENAME)
            /\ csvDataSource' = Item("default")
            /\ LoadSettles(WithProgress(WithMarkets(provider, proc[Loader].data.items), 100),
                           "resolved")

\* clearData() after the remove; a rejected remove makes loadDataFromStorage() reject
DataCleared ==
    \/ /\ LoaderResumed({"remove"}, "resolved")
       /\ csvFileName' = NoItem
       /\ csvDataSource' = NoItem
       /\ LoadSettles(Cleared(provider), "resolved")
    \/ /\ LoaderResumed({"remove"}, "rejected")
       /\ UNCHANGED <<csvFileName, csvDataSource>>
       /\ LoadSettles(provider, "rejected")


\* waitForDataLoad(): if (this.loadingPromise) await this.loadingPromise
CallWaitForDataLoad(p) ==
    /\ proc[p].pc = "idle"
    /\ provider.class = "CSVProvider"
    /\ proc' = [proc EXCEPT ![p] =
                   IF provider.loadingPromise = "null"
                   THEN [IdleProc EXCEPT !.call = "waitForDataLoad", !.pc = "done",
                                         !.ret = Resolved(Void)]
                   ELSE [IdleProc EXCEPT !.call = "waitForDataLoad", !.pc = "waitLoad"]]
    /\ dataLoadAwaited' = (dataLoadAwaited \/ provider.loadingPromise = "null")
    /\ UNCHANGED <<searchVars, debounceVars, fnVars, csvMetaVars, selection, envProvider, zillowKey, providerType, provider, now, ticks,
                   idb, dbInstance, initPromise, openCalls, store, txQueue, observedExpired>>

\* the awaited promise has settled
DataLoadAwaited(p) ==
    /\ proc[p].pc = "waitLoad"
    /\ provider.loadingPromise # "pending"
    /\ proc' = [proc EXCEPT ![p].pc = "done",
                            ![p].ret = IF provider.loadingPromise = "fulfilled"
                                       THEN Resolved(Void)
                                       ELSE Rejected(Err("load failed"))]
    /\ dataLoadAwaited' = (provider.loadingPromise = "fulfilled")
    /\ UNCHANGED <<searchVars, debounceVars, fnVars, csvMetaVars, selection, envProvider, zillowKey, providerType, provider, now, ticks,
                   idb, dbInstance, initPromise, openCalls, store, txQueue, observedExpired>>

\* getMarketStats(location, forceRefresh) of the CSV provider in use
CallCsvGetMarketStats(p, location, forceRefresh) ==
    /\ provider.class = "CSVProvider"
    /\ CallGetMarketStats(p, "csv", location, forceRefresh)

\* fetchMarketStatsFromAPI of the CSV provider returns
CsvFetchReturns(p) ==
    /\ proc[p].prov = "csv"
    /\ FetchReturns(p, fetchMarketStatsFromCSV(provider, proc[p].arg))

(* The CSV parser: the header row *)

Digits == {"0", "1", "2", "3", "4", "5", "6", "7", "8", "9"}

\* the characters of the column names the model uses
Chars(h) ==
    CASE h = "2024-01-31" -> <<"2", "0", "2", "4", "-", "0", "1", "-", "3", "1">>
      [] h = "2024-02-29" -> <<"2", "0", "2", "4", "-", "0", "2", "-", "2", "9">>
      [] h = "9999-99-99" -> <<"9", "9", "9", "9", "-", "9", "9", "-", "9", "9">>
      [] h = "2024-1-31" -> <<"2", "0", "2", "4", "-", "1", "-", "3", "1">>
      [] h = "2024/01/31" -> <<"2", "0", "2", "4", "/", "0", "1", "/", "3", "1">>
      [] h = "2024-01-31x" -> <<"2", "0", "2", "4", "-", "0", "1", "-", "3", "1", "x">>
      [] h = "x2024-01-31" -> <<"x", "2", "0", "2", "4", "-", "0", "1", "-", "3", "1">>
      [] h = "01-31-2024" -> <<"0", "1", "-", "3", "1", "-", "2", "0", "2", "4">>
      [] h = "regionid" -> <<"r", "e", "g", "i", "o", "n", "i", "d">>
      [] h = "regionname" -> <<"r", "e", "g", "i", "o", "n", "n", "a", "m", "e">>
      [] h = "statename" -> <<"s", "t", "a", "t", "e", "n", "a", "m", "e">>
      [] h = "state" -> <<"s", "t", "a", "t", "e">>
      [] h = "city" -> <<"c", "i", "t", "y">>

\* /^\d{4}-\d{2}-\d{2}$/.test(h)
datePattern(h) ==
    LET c == Chars(h) IN
    /\ Len(c) = 10
    /\ \A i \in {1, 2, 3, 4, 6, 7, 9, 10} : c[i] \in Digits
    /\ c[5] = "-"
    /\ c[8] = "-"

\* headers.includes(name)
Includes(headers, name) == \E i \in 1..Len(headers) : headers[i] = name

\* a detection that takes any file with the three region columns for the wide format
detectCSVFormat_NoDates(headers) ==
    IF /\ Includes(headers, "regionid")
       /\ Includes(headers, "regionname")
       /\ Includes(headers, "statename")
    THEN "zillow-zhvi"
    ELSE "simple"

\* detectCSVFormat(headers), headers being trimmed and lower-cased
detectCSVFormat(headers) ==
    LET hasRegionID == Includes(headers, "regionid")
        hasRegionName == Includes(headers, "regionname")
        hasStateName == Includes(headers, "statename")
        hasDateColumns == \E i \in 1..Len(headers) : datePattern(headers[i])
    IN IF hasRegionID /\ hasRegionName /\ hasStateName /\ hasDateColumns
       THEN "zillow-zhvi"
       ELSE "simple"

\* requiredHeaders.filter(h => !headers.includes(h))
MissingHeaders(required, headers) ==
    SelectSeq(required, LAMBDA h : ~Includes(headers, h))

(* The upload of a file *)

\* the text of a file: the number of its lines after trim(), its header row and the
\* markets its data rows parse into
CsvContent(lines, headers, markets) ==
    [lines |-> lines, headers |-> headers, markets |-> markets]

\* a File: FileReader either delivers its text or fails
CsvFile(name, read, content) == [name |-> name, read |-> read, content |-> content]

Valid == [valid |-> TRUE, error |-> << >>]

Invalid(msg, missing) == [valid |-> FALSE, error |-> <<msg>> \o missing]

\* validateCSVContent(csvContent)
validateCSVContent(c) ==
    IF c.lines = 0 THEN Invalid("CSV file is empty", << >>)
    ELSE IF c.lines < 2
    THEN Invalid("CSV must contain at least a header row and one data row", << >>)
    ELSE IF detectCSVFormat(c.headers) = "zillow-zhvi"
    THEN LET missing == MissingHeaders(<<"regionid", "regionname", "statename", "state">>,
                                       c.headers)
         IN IF Len(missing) > 0
            THEN Invalid("Missing required Zillow ZHVI columns", missing)
            ELSE IF ~\E i \in 1..Len(c.headers) : datePattern(c.headers[i])
            THEN Invalid("Zillow ZHVI file must contain date columns (YYYY-MM-DD format)",
                         << >>)
            ELSE Valid
    ELSE LET missing == MissingHeaders(<<"city", "state">>, c.headers)
         IN IF Len(missing) > 0
            THEN Invalid("Missing required columns", missing)
            ELSE Valid

\* parseCSV(csvContent): the markets of the rows that parse, or an Error
parseCSV(c) ==
    IF c.lines < 2
    THEN Rejected(Err("CSV file must contain at least a header row and one data row"))
    ELSE IF detectCSVFormat(c.headers) = "zillow-zhvi" THEN Resolved(c.markets)
    ELSE IF Len(MissingHeaders(<<"city", "state">>, c.headers)) > 0
    THEN Rejected(Err("CSV missing required headers"))
    ELSE Resolved(c.markets)

\* what uploadCSVFile resolves with
UploadSuccess(n) == [t |-> "upload", success |-> TRUE, markets |-> n, error |-> << >>]

UploadFailure(error) == [t |-> "upload", success |-> FALSE, markets |-> 0, error |-> error]

\* uploadCSVFile(file) up to its first return or to its await of
\* IndexedDBCache.set(CSV_MARKETS_STORAGE_KEY, markets, Infinity)
UploadUntilSet(file) ==
    IF file.read = "error" THEN UploadFailure(<<"File reading error">>)
    ELSE IF ~validateCSVContent(file.content).valid
    THEN UploadFailure(validateCSVContent(file.content).error)
    ELSE IF parseCSV(file.content).kind = "rejected"
    THEN UploadFailure(<<parseCSV(file.content).val.e>>)
    ELSE IF Len(parseCSV(file.content).val) = 0
    THEN UploadFailure(<<"No valid market data found in CSV file">>)
    ELSE Null

\* what is stored under CSV_MARKETS_STORAGE_KEY
PersistedDataset ==
    IF HasRecord(store, CSV_MARKETS_STORAGE_KEY)
    THEN RecordAt(store, CSV_MARKETS_STORAGE_KEY).data
    ELSE Null

\* the markets in memory, the persisted dataset and the two localStorage items
ProviderData ==
    [cachedMarkets |-> provider.cachedMarkets, isDataLoaded |-> provider.isDataLoaded,
     persisted |-> PersistedDataset, filename |-> csvFileName, source |-> csvDataSource]

\* uploadCSVFile(file): the file is read, validated and parsed; a file that yields
\* markets goes on to await IndexedDBCache.set(CSV_MARKETS_STORAGE_KEY, markets, Infinity)
\* (before: what the caller noted of the provider's data when it called)
UploadCSVFile(p, file, before) ==
    /\ proc[p].pc = "idle"
    /\ provider.class = "CSVProvider"
    /\ IF UploadUntilSet(file) # Null
       THEN /\ proc' = [proc EXCEPT ![p] = [IdleProc EXCEPT !.call = "uploadCSVFile",
                                                           !.arg = file.name,
                                                           !.before = before,
                                                           !.pc = "done",
                                                           !.ret = Resolved(UploadUntilSet(file))]]
            /\ UNCHANGED <<now, ticks, initPromise, openCalls, txQueue, observedExpired>>
       ELSE BeginCache(p, [IdleProc EXCEPT !.call = "uploadCSVFile", !.arg = file.name,
                                           !.before = before], "set",
                       CSV_MARKETS_STORAGE_KEY, Markets(parseCSV(file.content).val), Infinity, 0)
    /\ UNCHANGED <<appVars, idb, dbInstance, store>>

CallUploadCSVFile(p, file) == UploadCSVFile(p, file, Null)

\* uploadCSVFile(file) after the set: the file name and the data source are stored
\* and the markets are cached in memory; a rejected set or a throwing
\* localStorage.setItem ends in the catch, which reports the failure
UploadStored(p) ==
    /\ proc[p].call = "uploadCSVFile"
    /\ proc[p].pc = "resumed"
    /\ IF proc[p].ret.kind = "rejected"
       THEN /\ proc' = [proc EXCEPT ![p].pc = "done",
                                    ![p].ret = Resolved(UploadFailure(<<"request.error">>))]
            /\ UNCHANGED <<provider, csvFileName, csvDataSource>>
       ELSE IF localStorageFull
       THEN /\ proc' = [proc EXCEPT ![p].pc = "done",
                                    ![p].ret = Resolved(UploadFailure(<<"QuotaExceededError">>))]
            /\ UNCHANGED <<provider, csvFileName, csvDataSource>>
       ELSE /\ csvFileName' = Item(proc[p].arg)
            /\ csvDataSource' = Item("user-upload")
            /\ provider' = WithMarkets(provider, proc[p].data.items)
            /\ proc' = [proc EXCEPT ![p].pc = "done",
                                    ![p].ret = Resolved(UploadSuccess(Len(proc[p].data.items)))]
    /\ UNCHANGED <<now, ticks, idb, dbInstance, initPromise, openCalls, store, txQueue,
                   observedExpired, selection, envProvider, zillowKey, providerType,
                   dataLoadAwaited, localStorageFull, searchVars, debounceVars, fnVars>>

\* files whose rows parse into the markets of ParsedFiles
ParsedUploads ==
    {CsvFile("upload.csv", "text", CsvContent(Len(items) + 1, <<"city", "state">>, items)) :
        items \in ParsedFiles}

-----------------------------------------------------------------------------

(* The market search hook *)

\* isAPIConfigured(): Boolean(API_KEY && API_KEY !== 'your_api_key_here')
isAPIConfigured(key) == key # "" /\ key # "your_api_key_here"

ApiKeys == {"", "your_api_key_here", "test-key"}

\* what the user typed when the debounce timer fires; search() passes on only
\* queries of two characters or more
SearchQueries == {"au", "mi"}

MOCK_MARKETS ==
    <<[id |-> "1", name |-> "Detroit, MI", city |-> "Detroit", state |-> "MI", zipCode |-> "48201"],
      [id |-> "2", name |-> "Anaheim, CA", city |-> "Anaheim", state |-> "CA", zipCode |-> "92805"],
      [id |-> "3", name |-> "Austin, TX", city |-> "Austin", state |-> "TX", zipCode |-> "78701"],
      [id |-> "4", name |-> "Miami, FL", city |-> "Miami", state |-> "FL", zipCode |-> "33101"],
      [id |-> "5", name |-> "Seattle, WA", city |-> "Seattle", state |-> "WA", zipCode |-> "98101"]>>

\* s.toLowerCase().includes(query), on the strings of MOCK_MARKETS
IncludesLower(s, query) ==
    \/ query = "au" /\ s \in {"Austin, TX", "Austin"}
    \/ query = "mi" /\ s \in {"Detroit, MI", "MI", "Miami, FL", "Miami"}

\* searchMockData(query): the mock markets whose name, city or state contains the
\* lower-cased query (no zipCode contains a query of letters)
searchMockData(query) ==
    LET lowerQuery == toLowerCase(query)
        hit(market) == \/ IncludesLower(market.name, lowerQuery)
                       \/ IncludesLower(market.city, lowerQuery)
                       \/ IncludesLower(market.state, lowerQuery)
    IN SelectSeq(MOCK_MARKETS, hit)

Property(id, city, state, zipCode) ==
    [id |-> id, city |-> city, state |-> state, zipCode |-> zipCode]

\* the properties the remote API lists for a query
SearchData(query) ==
    IF query = "au"
    THEN <<Property("p1", "Austin", "TX", "78701"), Property("p2", "Aurora", "CO", "80010"),
           Property("p3", "Austin", "TX", "78702"), Property("p4", "", "", "")>>
    ELSE <<Property("p5", "Miami", "FL", "33101")>>

\* `${city}, ${state}`
CityState(city, state) ==
    CASE city = "Austin" /\ state = "TX" -> "Austin, TX"
      [] city = "Aurora" /\ state = "CO" -> "Aurora, CO"
      [] city = "Miami" /\ state = "FL" -> "Miami, FL"
      [] city = "Unknown" /\ state = "" -> "Unknown, "
      [] OTHER -> "?"

\* transformToMarket(property); the properties of the model carry no address fields
transformToMarket(property) ==
    LET city == IF property.city # "" THEN property.city ELSE "Unknown" IN
    [id |-> property.id, name |-> CityState(city, property.state), city |-> city,
     state |-> property.state, zipCode |-> property.zipCode]

\* deduplicateMarkets(markets): the first market of every city and state
deduplicateMarkets(markets) ==
    LET kept[i \in 0..Len(markets)] ==
            IF i = 0 THEN << >>
            ELSE IF \E j \in 1..(i - 1) : /\ markets[j].city = markets[i].city
                                          /\ markets[j].state = markets[i].state
            THEN kept[i - 1]
            ELSE Append(kept[i - 1], markets[i])
    IN kept[Len(markets)]

SEARCH_RESULT_LIMIT == 10

\* properties.map(transformToMarket), deduplicateMarkets, slice(0, 10)
MarketsOf(properties) ==
    LET markets == [i \in 1..Len(properties) |-> transformToMarket(properties[i])]
        uniqueMarkets == deduplicateMarkets(markets)
    IN SubSeq(uniqueMarkets, 1,
              IF Len(uniqueMarkets) < SEARCH_RESULT_LIMIT THEN Len(uniqueMarkets)
              ELSE SEARCH_RESULT_LIMIT)

\* the tasks that run performSearch
SearchProcs == {1, 2}

NoSearch == [task |-> 0, query |-> ""]

\* searchProperties(query) is called without the signal of the controller, so the
\* request of a task listens to no controller (0)
RequestSignal(p) == 0

\* no function is under study
NoFunctionCall == fnInput = Null /\ fnOutput = Null

\* localStorage holds neither item of the CSV provider and accepts writes
NoCsvItems == csvFileName = NoItem /\ csvDataSource = NoItem /\ localStorageFull = FALSE

\* the hook before its first search
InitSearchHook ==
    /\ results = << >>
    /\ loading = FALSE
    /\ searchError = NoItem
    /\ abortControllerRef = 0
    /\ aborted = {}
    /\ latest = NoSearch
    /\ debounceTimerRef = 0
    /\ timers = {}
    /\ searchLog = << >>

\* performSearch(query): the controller in the ref is aborted; without an API key
\* the mock markets are filtered, else a controller is created and
\* searchProperties(query) runs up to its await of APICache.get
PerformSearch(p, query) ==
    /\ proc[p].pc = "idle"
    /\ searchError' = NoItem
    /\ aborted' = IF abortControllerRef # 0 THEN aborted \cup {abortControllerRef} ELSE aborted
    /\ IF ~isAPIConfigured(apiKey)
       THEN /\ results' = searchMockData(query)
            /\ loading' = FALSE
            /\ UNCHANGED <<abortControllerRef, latest, now, ticks, initPromise, openCalls,
                           txQueue, proc, observedExpired>>
       ELSE /\ loading' = TRUE
            /\ abortControllerRef' = p
            /\ latest' = [task |-> p, query |-> query]
            /\ BeginCache(p, [IdleProc EXCEPT !.call = "performSearch", !.arg = query],
                          "get", <<"search", toLowerCase(query)>>, Null, 0, 0)
            /\ UNCHANGED results
    /\ UNCHANGED <<idb, dbInstance, store, apiKey, providerVars, fnVars>>

\* performSearch(query) for some query of two characters or more
CallPerformSearch(p, query) ==
    /\ PerformSearch(p, query)
    /\ UNCHANGED debounceVars

\* the end of performSearch: what the try or the catch set, then the finally
SearchSettles(p, markets, message) ==
    /\ results' = markets
    /\ searchError' = message
    /\ loading' = FALSE
    /\ abortControllerRef' = 0
    /\ UNCHANGED <<aborted, latest, apiKey, providerVars, fnVars>>

\* a performSearch that is back from the awaited APICache.get of searchProperties
SearchResumed(p, kind) ==
    /\ proc[p].call = "performSearch"
    /\ proc[p].pc = "resumed"
    /\ proc[p].ret.kind = kind

\* searchProperties: if (cached) return cached
SearchFromCache(p) ==
    /\ SearchResumed(p, "resolved")
    /\ Truthy(proc[p].ret.val)
    /\ SearchSettles(p, MarketsOf(proc[p].ret.val.items), NoItem)
    /\ proc' = [proc EXCEPT ![p] = IdleProc]
    /\ UNCHANGED <<now, ticks, idb, dbInstance, initPromise, openCalls, store, txQueue,
                   observedExpired, debounceVars>>

\* APICache.get rejected ahead of the try of searchProperties: the catch of
\* performSearch takes an error that is no APIError
SearchCacheRejected(p) ==
    /\ SearchResumed(p, "rejected")
    /\ SearchSettles(p, searchMockData(proc[p].arg),
                     Item("Search failed. Showing available markets."))
    /\ proc' = [proc EXCEPT ![p] = IdleProc]
    /\ UNCHANGED <<now, ticks, idb, dbInstance, initPromise, openCalls, store, txQueue,
                   observedExpired, debounceVars>>

\* searchProperties: nothing cached, apiClient.get('/properties', ...) is sent
SearchRequestSent(p) ==
    /\ SearchResumed(p, "resolved")
    /\ ~Truthy(proc[p].ret.val)
    /\ proc' = [proc EXCEPT ![p].pc = "fetching"]
    /\ UNCHANGED <<appVars, now, ticks, idb, dbInstance, initPromise, openCalls, store,
                   txQueue, observedExpired>>

\* APICache.set(cacheKey, data, CACHE_TTL.SEARCH), not awaited: the put has no owner
DetachedSet(key, data, ttlMs) ==
    IF dbInstance
    THEN <<[op |-> "put", key |-> key, rec |-> NewRecord(key, data, ttlMs, now, 0),
            upper |-> 0, owner |-> 0]>>
    ELSE << >>

SearchOutcomes == {"ok", "rate-limit", "timeout"}

\* the response of the remote API arrives; a request whose signal was aborted would
\* end in an AbortError, which leaves the state of the hook alone
SearchResponse(p, outcome) ==
    /\ proc[p].call = "performSearch"
    /\ proc[p].pc = "fetching"
    /\ proc' = [proc EXCEPT ![p] = IdleProc]
    /\ IF RequestSignal(p) \in aborted
       THEN /\ loading' = FALSE
            /\ abortControllerRef' = 0
            /\ UNCHANGED <<results, searchError, aborted, latest, apiKey, providerVars, fnVars, txQueue,
                           observedExpired>>
       ELSE IF outcome = "ok"
       THEN /\ SearchSettles(p, MarketsOf(SearchData(proc[p].arg)), NoItem)
            /\ txQueue' = txQueue \o DetachedSet(proc[p].key,
                                                 [t |-> "props", items |-> SearchData(proc[p].arg)],
                                                 CACHE_TTL_SEARCH)
            /\ observedExpired' = observedExpired \ {proc[p].key}
       ELSE /\ SearchSettles(p, searchMockData(proc[p].arg),
                             IF outcome = "rate-limit"
                             THEN Item("Search rate limit exceeded. Please try again later.")
                             ELSE Item("Request timeout. Please try again."))
            /\ UNCHANGED <<txQueue, observedExpired>>
    /\ UNCHANGED <<now, ticks, idb, dbInstance, initPromise, openCalls, store, debounceVars>>

-----------------------------------------------------------------------------

(* The debounced search *)

\* the quiet period of search(): setTimeout(..., 300)
DEBOUNCE_MS == 300

\* the most calls of search and clearResults in one behaviour
MaxHookCalls == 2

\* what the user may have typed when search(query) is called
SearchInputs == {"a", "au", "mi"}

\* query.length
StrLen(query) ==
    CASE query = "" -> 0
      [] query = "a" -> 1
      [] OTHER -> 2

\* !query || query.length < 2
TooShort(query) == query = "" \/ StrLen(query) < 2

\* a search() that leaves the timer of the call before it armed
CancelPending_Keep(ts, ref) == ts

\* if (debounceTimerRef.current) clearTimeout(debounceTimerRef.current)
CancelPending(ts, ref) == IF ref # 0 THEN {t \in ts : t.id # ref} ELSE ts

HookCalls == Len(SelectSeq(searchLog, LAMBDA e : e.ev \in {"search", "clear"}))

\* a timer that is due fires before an event that arrives later is handled
NoTimerDue == \A t \in timers : now < t.due

Logged(ev, query) == Append(searchLog, [ev |-> ev, query |-> query, at |-> now])

\* search(query): the pending timer is cleared; a short query empties the results,
\* any other arms a timer of 300 ms that will call performSearch(query)
CallSearch(query) ==
    /\ HookCalls < MaxHookCalls
    /\ NoTimerDue
    /\ searchLog' = Logged("search", query)
    /\ IF TooShort(query)
       THEN /\ timers' = CancelPending(timers, debounceTimerRef)
            /\ results' = << >>
            /\ loading' = FALSE
            /\ UNCHANGED debounceTimerRef
       ELSE /\ loading' = TRUE
            /\ debounceTimerRef' = debounceTimerRef + 1
            /\ timers' = CancelPending(timers, debounceTimerRef)
                            \cup {[id |-> debounceTimerRef + 1, query |-> query,
                                   due |-> now + DEBOUNCE_MS]}
            /\ UNCHANGED results
    /\ UNCHANGED <<searchError, abortControllerRef, aborted, latest, apiKey, providerVars,
                   fnVars, now, ticks, idb, dbInstance, initPromise, openCalls, store,
                   txQueue, proc, observedExpired>>

\* clearResults(): results, error and loading are reset, the pending timer is
\* cleared and the controller in the ref is aborted
CallClearResults ==
    /\ HookCalls < MaxHookCalls
    /\ NoTimerDue
    /\ searchLog' = Logged("clear", "")
    /\ results' = << >>
    /\ searchError' = NoItem
    /\ loading' = FALSE
    /\ timers' = CancelPending(timers, debounceTimerRef)
    /\ aborted' = IF abortControllerRef # 0 THEN aborted \cup {abortControllerRef} ELSE aborted
    /\ UNCHANGED <<debounceTimerRef, abortControllerRef, latest, apiKey, providerVars,
                   fnVars, now, ticks, idb, dbInstance, initPromise, openCalls, store,
                   txQueue, proc, observedExpired>>

\* the timer fires: performSearch(query) with the query search() was called with
TimerFires(p) ==
    \E t \in timers :
        /\ now >= t.due
        /\ PerformSearch(p, t.query)
        /\ timers' = timers \ {t}
        /\ searchLog' = Logged("request", t.query)
        /\ UNCHANGED debounceTimerRef

\* time passes, up to the moment the next timer is due
TickDebounce(d) ==
    /\ \A t \in timers : now + d <= t.due
    /\ Tick(d)

-----------------------------------------------------------------------------

(* Specifications *)

Init ==
    /\ now = 0
    /\ ticks = 0
    /\ idb \in {"ok", "unavailable"}
    /\ dbInstance = FALSE
    /\ initPromise = "null"
    /\ openCalls = 0
    /\ store = {}
    /\ txQueue = << >>
    /\ proc = [p \in Procs |-> IdleProc]
    /\ observedExpired = {}
    /\ selection = NoItem
    /\ envProvider = NoItem
    /\ zillowKey = ""
    /\ providerType = NoItem
    /\ provider = NoProvider
    /\ dataLoadAwaited = FALSE
    /\ apiKey = ""
    /\ InitSearchHook
    /\ NoCsvItems
    /\ NoFunctionCall

\* the cache and its direct users
NextCache ==
    \/ \E p \in Procs, key \in DirectKeys : CallGet(p, key)
    \/ \E p \in Procs, key \in DirectKeys, data \in DirectData, ttlMs \in DirectTtls, d \in {0, 1} :
          CallSet(p, key, data, ttlMs, d)
    \/ \E p \in Procs, key \in DirectKeys : CallRemove(p, key)
    \/ \E p \in Procs : CallClear(p)
    \/ \E p \in Procs : CallClearExpired(p)
    \/ \E p \in Procs : CallGetStats(p)
    \/ \E p \in Procs, key \in DirectKeys : CallGetAge(p, key)
    \/ OpenSucceeds
    \/ OpenFails
    \/ \E p \in Procs, d \in {0, 1} : DBReady(p, d)
    \/ \E p \in Procs : DBFailed(p)
    \/ ReqError
    \/ ExecGet
    \/ ExecGetAge
    \/ ExecPut
    \/ ExecDelete
    \/ ExecClear
    \/ ExecCursor
    \/ ExecGetAll
    \/ \E p \in Procs : Finish(p)
    \/ Tick(1)
    \/ StorageFault

SpecCache == Init /\ [][NextCache]_vars

\* the providers on top of the cache
Next ==
    \/ \E p \in Procs, id \in MarketStatsProviders, location \in Locations, forceRefresh \in BOOLEAN :
          CallGetMarketStats(p, id, location, forceRefresh)
    \/ \E p \in Procs, id \in SearchProviders, query \in Queries, forceRefresh \in BOOLEAN :
          CallSearchProperties(p, id, query, forceRefresh)
    \/ \E p \in Procs, stats \in FetchResults : FetchReturns(p, stats)
    \/ \E p \in Procs, properties \in PropertyResults : FetchPropertiesReturns(p, properties)
    \/ \E p \in Procs, error \in FetchErrors : FetchThrows(p, error)
    \/ OpenSucceeds
    \/ OpenFails
    \/ \E p \in Procs : DBReady(p, 0)
    \/ \E p \in Procs : DBFailed(p)
    \/ ReqError
    \/ ExecGet
    \/ ExecPut
    \/ ExecDelete
    \/ \E p \in Procs : Finish(p)
    \/ \E d \in TickSteps : Tick(d)
    \/ StorageFault

Spec == Init /\ [][Next]_vars

\* the page loads with some stored selection and some build configuration
InitFactory ==
    /\ now = 0
    /\ ticks = 0
    /\ idb \in {"ok", "unavailable"}
    /\ dbInstance = FALSE
    /\ initPromise = "null"
    /\ openCalls = 0
    /\ store = {}
    /\ txQueue = << >>
    /\ proc = [p \in Procs \cup {Loader} |-> IdleProc]
    /\ observedExpired = {}
    /\ selection \in StoredSelections
    /\ envProvider \in EnvProviders
    /\ zillowKey \in ZillowKeys
    /\ providerType = NoItem
    /\ provider = NoProvider
    /\ dataLoadAwaited = FALSE
    /\ apiKey = ""
    /\ InitSearchHook
    /\ NoCsvItems
    /\ NoFunctionCall

\* the factory on a page load
NextFactory ==
    \/ CallGetProviderType
    \/ CallCreateProvider

SpecFactory == InitFactory /\ [][NextFactory]_vars

\* the page loads with the CSV provider selected
InitCsv ==
    /\ now = 0
    /\ ticks = 0
    /\ idb \in {"ok", "unavailable"}
    /\ dbInstance = FALSE
    /\ initPromise = "null"
    /\ openCalls = 0
    /\ store = {}
    /\ txQueue = << >>
    /\ proc = [p \in Procs \cup {Loader} |-> IdleProc]
    /\ observedExpired = {}
    /\ selection = Item("csv")
    /\ envProvider = NoItem
    /\ zillowKey = ""
    /\ providerType = NoItem
    /\ provider = NoProvider
    /\ dataLoadAwaited = FALSE
    /\ apiKey = ""
    /\ InitSearchHook
    /\ NoCsvItems
    /\ NoFunctionCall

\* the CSV provider the factory creates, its users, and the cache below them
NextCsv ==
    \/ CallCreateProvider
    \/ LoadedFromStorage
    \/ LoadDefaultCSV
    \/ \E items \in ParsedFiles : DefaultCSVParsed(items)
    \/ DefaultCSVFails
    \/ LoadFailed
    \/ DefaultCSVStored
    \/ DataCleared
    \/ \E p \in Procs : CallWaitForDataLoad(p)
    \/ \E p \in Procs : DataLoadAwaited(p)
    \/ \E p \in Procs, location \in CsvLocations, forceRefresh \in BOOLEAN :
          CallCsvGetMarketStats(p, location, forceRefresh)
    \/ \E p \in Procs : CsvFetchReturns(p)
    \/ \E p \in Procs, file \in ParsedUploads : CallUploadCSVFile(p, file)
    \/ \E p \in Procs : UploadStored(p)
    \/ OpenSucceeds
    \/ OpenFails
    \/ \E p \in Procs \cup {Loader} : DBReady(p, 0)
    \/ \E p \in Procs \cup {Loader} : DBFailed(p)
    \/ ReqError
    \/ ExecGet
    \/ ExecPut
    \/ ExecDelete
    \/ \E p \in Procs : Finish(p)
    \/ Tick(CACHE_TTL_MARKET_STATS)
    \/ StorageFault

SpecCsv == InitCsv /\ [][NextCsv]_vars


\* the files a user may pick: one that cannot be read, an empty one, one with a
\* header row only, files without the required columns, one whose rows all fail to
\* parse, and files of both formats that parse into markets
UploadFiles ==
    {CsvFile("upload.csv", "error", CsvContent(0, << >>, << >>)),
     CsvFile("upload.csv", "text", CsvContent(0, << >>, << >>)),
     CsvFile("upload.csv", "text", CsvContent(1, <<"city", "state">>, << >>)),
     CsvFile("upload.csv", "text", CsvContent(2, <<"city">>, <<StatsA>>)),
     CsvFile("upload.csv", "text",
             CsvContent(2, <<"regionid", "regionname", "statename", "2024-01-31">>, <<StatsA>>)),
     CsvFile("upload.csv", "text", CsvContent(2, <<"city", "state">>, << >>)),
     CsvFile("upload.csv", "text", CsvContent(2, <<"city", "state">>, <<StatsA>>)),
     CsvFile("upload.csv", "text", CsvContent(3, <<"city", "state">>, <<StatsA, StatsB>>)),
     CsvFile("upload.csv", "text",
             CsvContent(3, <<"regionid", "regionname", "statename", "state", "2024-01-31">>,
                        <<StatsB, StatsBoston>>))}

\* the page loads with the CSV provider selected; localStorage may be full
InitUpload ==
    /\ now = 0
    /\ ticks = 0
    /\ idb \in {"ok", "unavailable"}
    /\ dbInstance = FALSE
    /\ initPromise = "null"
    /\ openCalls = 0
    /\ store = {}
    /\ txQueue = << >>
    /\ proc = [p \in Procs \cup {Loader} |-> IdleProc]
    /\ observedExpired = {}
    /\ selection = Item("csv")
    /\ envProvider = NoItem
    /\ zillowKey = ""
    /\ providerType = NoItem
    /\ provider = NoProvider
    /\ dataLoadAwaited = FALSE
    /\ apiKey = ""
    /\ InitSearchHook
    /\ csvFileName = NoItem
    /\ csvDataSource = NoItem
    /\ localStorageFull \in BOOLEAN
    /\ NoFunctionCall

\* the user picks a file once the load the constructor started is over
UploadAfterLoad(p, file) ==
    /\ proc[Loader].pc = "idle"
    /\ UploadCSVFile(p, file, ProviderData)

\* the CSV provider, the load its constructor starts, and uploads after the load
NextUpload ==
    \/ CallCreateProvider
    \/ LoadedFromStorage
    \/ LoadDefaultCSV
    \/ \E items \in ParsedFiles : DefaultCSVParsed(items)
    \/ DefaultCSVFails
    \/ LoadFailed
    \/ DefaultCSVStored
    \/ DataCleared
    \/ \E p \in Procs, file \in UploadFiles : UploadAfterLoad(p, file)
    \/ \E p \in Procs : UploadStored(p)
    \/ OpenSucceeds
    \/ OpenFails
    \/ \E p \in Procs \cup {Loader} : DBReady(p, 0)
    \/ \E p \in Procs \cup {Loader} : DBFailed(p)
    \/ ReqError
    \/ ExecGet
    \/ ExecPut
    \/ ExecDelete
    \/ \E p \in Procs : Finish(p)
    \/ StorageFault

SpecUpload == InitUpload /\ [][NextUpload]_vars


\* two tasks of the application that use the cache at the same time
ConcProcs == {1, 2}

ConcKeys == {<<"market-stats", "Detroit, MI">>}

ConcTtls == {1, 2}

\* the records of the puts that are pending
PendingRecords == {txQueue[i].rec : i \in {j \in 1..Len(txQueue) : txQueue[j].op = "put"}}

\* clearExpired() of one of the concurrent tasks; the call notes the records of the
\* sets that are in flight when it is issued
CallClearExpiredConcurrent(p) ==
    /\ proc[p].pc = "idle"
    /\ BeginCache(p, [IdleProc EXCEPT !.call = "clearExpired", !.snap = PendingRecords],
                  "clearExpired", << >>, Null, 0, 0)
    /\ UNCHANGED <<appVars, idb, dbInstance, store>>

InitConcurrent ==
    /\ now = 0
    /\ ticks = 0
    /\ idb = "ok"
    /\ dbInstance = FALSE
    /\ initPromise = "null"
    /\ openCalls = 0
    /\ store = {}
    /\ txQueue = << >>
    /\ proc = [p \in ConcProcs |-> IdleProc]
    /\ observedExpired = {}
    /\ selection = NoItem
    /\ envProvider = NoItem
    /\ zillowKey = ""
    /\ providerType = NoItem
    /\ provider = NoProvider
    /\ dataLoadAwaited = FALSE
    /\ apiKey = ""
    /\ InitSearchHook
    /\ NoCsvItems
    /\ NoFunctionCall

\* get, set and clearExpired of two tasks in every interleaving
NextConcurrent ==
    \/ \E p \in ConcProcs, key \in ConcKeys : CallGet(p, key)
    \/ \E p \in ConcProcs, key \in ConcKeys, data \in DirectData, ttlMs \in ConcTtls :
          CallSet(p, key, data, ttlMs, 0)
    \/ \E p \in ConcProcs : CallClearExpiredConcurrent(p)
    \/ OpenSucceeds
    \/ \E p \in ConcProcs : DBReady(p, 0)
    \/ ExecGet
    \/ ExecPut
    \/ ExecDelete
    \/ ExecCursor
    \/ \E p \in ConcProcs : Finish(p)
    \/ Tick(1)

SpecConcurrent == InitConcurrent /\ [][NextConcurrent]_vars

\* what MockProvider.fetchMarketStatsFromAPI may return for one location: the base
\* price varied by Math.random(), the price change drawn between -5 % and +10 %
MockResults == {StatsA, StatsB}

\* two tasks that ask the mock provider for the statistics of one location
NextDuplicate ==
    \/ \E p \in ConcProcs, location \in Locations :
          CallGetMarketStats(p, "mock", location, FALSE)
    \/ \E p \in ConcProcs, stats \in MockResults : FetchReturns(p, stats)
    \/ OpenSucceeds
    \/ \E p \in ConcProcs : DBReady(p, 0)
    \/ ExecGet
    \/ ExecPut
    \/ \E p \in ConcProcs : Finish(p)

SpecDuplicate == InitConcurrent /\ [][NextDuplicate]_vars

\* the search hook with a build that may hold an API key
InitSearch ==
    /\ now = 0
    /\ ticks = 0
    /\ idb = "ok"
    /\ dbInstance = FALSE
    /\ initPromise = "null"
    /\ openCalls = 0
    /\ store = {}
    /\ txQueue = << >>
    /\ proc = [p \in SearchProcs |-> IdleProc]
    /\ observedExpired = {}
    /\ selection = NoItem
    /\ envProvider = NoItem
    /\ zillowKey = ""
    /\ providerType = NoItem
    /\ provider = NoProvider
    /\ dataLoadAwaited = FALSE
    /\ apiKey \in ApiKeys
    /\ InitSearchHook
    /\ NoCsvItems
    /\ NoFunctionCall

\* the searches of the hook, the responses of the remote API, and the cache
NextSearch ==
    \/ \E p \in SearchProcs, query \in SearchQueries : CallPerformSearch(p, query)
    \/ \E p \in SearchProcs : SearchFromCache(p)
    \/ \E p \in SearchProcs : SearchCacheRejected(p)
    \/ \E p \in SearchProcs : SearchRequestSent(p)
    \/ \E p \in SearchProcs, outcome \in SearchOutcomes : SearchResponse(p, outcome)
    \/ OpenSucceeds
    \/ \E p \in SearchProcs : DBReady(p, 0)
    \/ ReqError
    \/ ExecGet
    \/ ExecPut
    \/ ExecDelete
    \/ Tick(CACHE_TTL_SEARCH)
    \/ StorageFault

SpecSearch == InitSearch /\ [][NextSearch]_vars

\* the steps of the clock next to a quiet period of 300 ms
DebounceSteps == {100, DEBOUNCE_MS}

\* the hook with its debounced search function
InitDebounce ==
    /\ now = 0
    /\ ticks = 0
    /\ idb = "ok"
    /\ dbInstance = FALSE
    /\ initPromise = "null"
    /\ openCalls = 0
    /\ store = {}
    /\ txQueue = << >>
    /\ proc = [p \in SearchProcs |-> IdleProc]
    /\ observedExpired = {}
    /\ selection = NoItem
    /\ envProvider = NoItem
    /\ zillowKey = ""
    /\ providerType = NoItem
    /\ provider = NoProvider
    /\ dataLoadAwaited = FALSE
    /\ apiKey \in {"", "test-key"}
    /\ InitSearchHook
    /\ NoCsvItems
    /\ NoFunctionCall

NextDebounce ==
    \/ \E query \in SearchInputs : CallSearch(query)
    \/ CallClearResults
    \/ \E p \in SearchProcs : TimerFires(p)
    \/ \E p \in SearchProcs : SearchFromCache(p)
    \/ \E p \in SearchProcs : SearchRequestSent(p)
    \/ \E p \in SearchProcs, outcome \in SearchOutcomes : SearchResponse(p, outcome)
    \/ OpenSucceeds
    \/ \E p \in SearchProcs : DBReady(p, 0)
    \/ ExecGet
    \/ ExecPut
    \/ \E d \in DebounceSteps : TickDebounce(d)

SpecDebounce == InitDebounce /\ [][NextDebounce]_vars


-----------------------------------------------------------------------------
(* Functions that keep no state: each specification draws the argument of one *)
(* function from a bounded set and applies the function to it.                *)

\* nothing but the function call happens: the application is at rest
AtRest ==
    /\ now = 0
    /\ ticks = 0
    /\ idb = "ok"
    /\ dbInstance = FALSE
    /\ initPromise = "null"
    /\ openCalls = 0
    /\ store = {}
    /\ txQueue = << >>
    /\ proc = [p \in Procs |-> IdleProc]
    /\ observedExpired = {}
    /\ selection = NoItem
    /\ envProvider = NoItem
    /\ zillowKey = ""
    /\ providerType = NoItem
    /\ provider = NoProvider
    /\ dataLoadAwaited = FALSE
    /\ apiKey = ""
    /\ InitSearchHook
    /\ NoCsvItems

\* what a function returned
Result(v) == [t |-> "result", val |-> v]

\* the function F is called with the argument drawn and returns
Returns(F(_)) ==
    /\ fnOutput = Null
    /\ fnOutput' = Result(F(fnInput))
    /\ UNCHANGED <<now, ticks, idb, dbInstance, initPromise, openCalls, store, txQueue, proc,
                   observedExpired, providerVars, searchVars, debounceVars, fnInput>>

(* The response interceptor of the API client *)

\* new APIError(message, statusCode, isRateLimit); statusCode is Num(status), or Null
\* when it is left out
APIError(message, statusCode, isRateLimit) ==
    [name |-> "APIError", message |-> message, statusCode |-> statusCode,
     isRateLimit |-> isRateLimit]

\* an error of axios: the response when the server answered, the code, the message
AxiosError(response, code, message) ==
    [response |-> response, code |-> code, message |-> message]

\* a response with a status and the message of its body (NoItem: the body has none)
Response(status, message) == [status |-> status, message |-> message]

\* an interceptor without the branch for error.code === 'ECONNABORTED'
Intercept_NoTimeout(error) ==
    IF error.response # Null
    THEN IF error.response.status = 429
         THEN APIError(<<"API rate limit exceeded. Please try again later.">>,
                       Num(error.response.status), TRUE)
         ELSE IF error.response.status \in {401, 403}
         THEN APIError(<<"Invalid API key. Please check your configuration.">>,
                       Num(error.response.status), FALSE)
         ELSE APIError(<<"API request failed: ",
                         IF StringTruthy(error.response.message)
                         THEN error.response.message.value ELSE error.message>>,
                       Num(error.response.status), FALSE)
    ELSE APIError(<<"Network error. Please check your connection.">>, Null, FALSE)

\* the rejection handler of client.interceptors.response: what it throws
Intercept(error) ==
    IF error.response # Null
    THEN LET status == error.response.status
             isRateLimit == status = 429
         IN IF isRateLimit
            THEN APIError(<<"API rate limit exceeded. Please try again later.">>, Num(status), TRUE)
            ELSE IF status = 401 \/ status = 403
            THEN APIError(<<"Invalid API key. Please check your configuration.">>, Num(status),
                          FALSE)
            ELSE APIError(<<"API request failed: ",
                            IF StringTruthy(error.response.message)
                            THEN error.response.message.value ELSE error.message>>,
                          Num(status), FALSE)
    ELSE IF error.code = Item("ECONNABORTED")
    THEN APIError(<<"Request timeout. Please try again.">>, Null, FALSE)
    ELSE APIError(<<"Network error. Please check your connection.">>, Null, FALSE)

\* statuses the server may answer a failed request with
FailureStatuses == {400, 401, 403, 404, 418, 429, 500, 503}

\* messages a response body may carry, one of them the text of the timeout error
BodyMessages == {NoItem, Item(""), Item("Not found"), Item("Request timeout. Please try again.")}

\* codes of axios: the timeout, no connection, a bad response
AxiosCodes == {Item("ECONNABORTED"), Item("ERR_NETWORK"), Item("ERR_BAD_RESPONSE"), NoItem}

\* the failures of a request
ApiFailures ==
    {AxiosError(Response(status, message), code, "Request failed") :
        status \in FailureStatuses, message \in BodyMessages,
        code \in {Item("ERR_BAD_REQUEST"), Item("ERR_BAD_RESPONSE")}}
    \cup {AxiosError(Null, code, message) :
             code \in AxiosCodes,
             message \in {"timeout of 10000ms exceeded", "Network Error"}}

InitAPIError == AtRest /\ fnInput \in ApiFailures /\ fnOutput = Null

\* a request fails and the interceptor throws its APIError
InterceptorThrows == Returns(Intercept)

SpecAPIError == InitAPIError /\ [][InterceptorThrows]_vars

(* The header rows detectCSVFormat is given *)

\* column names next to the dates, and names that are or only look like dates
ColumnNames == <<"regionid", "regionname", "statename", "state", "city">>

DateLikeNames ==
    {"2024-01-31", "2024-02-29", "9999-99-99", "2024-1-31", "2024/01/31", "2024-01-31x",
     "x2024-01-31", "01-31-2024"}

\* the columns of ColumnNames chosen by picked, in their order
PickedColumns(picked) == SelectSeq(ColumnNames, LAMBDA h : h \in picked)

\* header rows: any of the named columns, followed by at most one date-like column
HeaderRows ==
    {PickedColumns(picked) : picked \in SUBSET {"regionid", "regionname", "statename",
                                                "state", "city"}}
    \cup {PickedColumns(picked) \o <<d>> :
             picked \in SUBSET {"regionid", "regionname", "statename", "state", "city"},
             d \in DateLikeNames}

InitDetect == AtRest /\ fnInput \in HeaderRows /\ fnOutput = Null

\* detectCSVFormat(headers) returns
DetectReturns == Returns(detectCSVFormat)

SpecDetect == InitDetect /\ [][DetectReturns]_vars


(* The rows of the wide format: parseZillowZHVI *)

MaxDateColumns == 3

\* parseFloat of a cell that holds no number
NaN == [t |-> "NaN"]

\* the cells of the date columns, already trimmed by parseCSVLine
CellTexts == {"", "0", "100", "250", "n/a", "150abc"}

\* parseFloat(value): the number a cell starts with
parseFloat(value) ==
    CASE value = "0" -> Num(0)
      [] value = "100" -> Num(100)
      [] value = "250" -> Num(250)
      [] value = "300" -> Num(300)
      [] value = "150abc" -> Num(150)
      [] OTHER -> NaN

\* the date columns of the header, and a.date.localeCompare(b.date) as a rank
DateColumnNames ==
    <<"2023-01-31", "2023-02-28", "2023-03-31", "2023-04-30", "2023-05-31", "2023-06-30",
      "2023-07-31", "2023-08-31", "2023-09-30", "2023-10-31", "2023-11-30", "2023-12-31",
      "2024-01-31", "2024-02-29", "2024-03-31">>

DateRank(date) == CHOOSE k \in 1..Len(DateColumnNames) : DateColumnNames[k] = date

\* a date column of a row: its date and the cell of the row under it
DateCell(date, value) == [date |-> date, value |-> value]

\* dateColumns.sort((a, b) => a.date.localeCompare(b.date)): the most recent last
SortByDate(columns) ==
    LET cells == {columns[i] : i \in 1..Len(columns)} IN
    [k \in 1..Len(columns) |->
        CHOOSE c \in cells :
            Cardinality({d \in cells : DateRank(d.date) < DateRank(c.date)}) = k - 1]

\* a number as a fraction
Ratio(num, den) == [num |-> num, den |-> den]

\* the loop from the most recent column to the oldest: j is the column looked at,
\* found what was found so far
RECURSIVE ScanBack(_, _, _)
ScanBack(dateColumns, j, found) ==
    IF j = 0 THEN found
    ELSE LET value == dateColumns[j].value
             numValue == parseFloat(value)
         IN IF value # "" /\ numValue # NaN
            THEN IF found.currentValue = Null
                 THEN ScanBack(dateColumns, j - 1,
                               [found EXCEPT !.currentValue = numValue,
                                             !.lastUpdatedDate = dateColumns[j].date])
                 ELSE IF found.previousValue = Null
                 THEN [found EXCEPT !.previousValue = numValue]
                 ELSE ScanBack(dateColumns, j - 1, found)
            ELSE ScanBack(dateColumns, j - 1, found)

\* a percent change computed whenever there is a previous value
PercentChange_NoGuard(currentValue, previousValue) ==
    IF previousValue # Null
    THEN Ratio((currentValue.n - previousValue.n) * 100, previousValue.n)
    ELSE Ratio(0, 1)

\* let percentChange = 0; if (previousValue !== undefined && previousValue > 0) ...
PercentChange(currentValue, previousValue) ==
    IF previousValue # Null /\ previousValue.n > 0
    THEN Ratio((currentValue.n - previousValue.n) * 100, previousValue.n)
    ELSE Ratio(0, 1)


\* the window of the statistics: the last 12 date columns
TRAILING_MONTHS == 12

Max(a, b) == IF a > b THEN a ELSE b

\* a loop that goes on past empty columns until it has 12 numbers
RecentValues_SkipEmpty(dateColumns, j, lo) ==
    LET numbered == SelectSeq([k \in 1..j |-> dateColumns[j + 1 - k]],
                              LAMBDA c : parseFloat(c.value) # NaN)
        n == IF Len(numbered) < TRAILING_MONTHS THEN Len(numbered) ELSE TRAILING_MONTHS
    IN [k \in 1..n |-> parseFloat(numbered[k].value).n]

\* the loop of the statistics: the numbers of the columns j down to lo, most recent first
RECURSIVE RecentValues(_, _, _)
RecentValues(dateColumns, j, lo) ==
    IF j < lo THEN << >>
    ELSE LET value == parseFloat(dateColumns[j].value)
         IN (IF value # NaN THEN <<value.n>> ELSE << >>)
            \o RecentValues(dateColumns, j - 1, lo)

\* Math.min(...values), Math.max(...values) and the sum of reduce
MinOf(values) == CHOOSE v \in {values[i] : i \in 1..Len(values)} :
                     \A i \in 1..Len(values) : v <= values[i]

MaxOf(values) == CHOOSE v \in {values[i] : i \in 1..Len(values)} :
                     \A i \in 1..Len(values) : v >= values[i]

RECURSIVE SumOf(_)
SumOf(values) == IF values = << >> THEN 0 ELSE Head(values) + SumOf(Tail(values))

\* Math.round of a fraction with a positive denominator
Round(x) == (2 * x.num + x.den) \div (2 * x.den)

\* one data row of parseZillowZHVI, from its date columns in the order of the file:
\* Null when the row has no value at all (the row is skipped)
parseZillowZHVIRow(columns) ==
    LET dateColumns == SortByDate(columns)
        found == ScanBack(dateColumns, Len(dateColumns),
                          [currentValue |-> Null, previousValue |-> Null,
                           lastUpdatedDate |-> Null])
        currentValue == found.currentValue
        recentValues == RecentValues(dateColumns, Len(dateColumns),
                                     Max(1, Len(dateColumns) - TRAILING_MONTHS + 1))
        minPrice == IF Len(recentValues) > 0 THEN MinOf(recentValues) ELSE currentValue.n
        maxPrice == IF Len(recentValues) > 0 THEN MaxOf(recentValues) ELSE currentValue.n
        avgPrice == IF Len(recentValues) > 0
                    THEN Ratio(SumOf(recentValues), Len(recentValues))
                    ELSE Ratio(currentValue.n, 1)
    IN IF currentValue = Null THEN Null
       ELSE [currentValue |-> currentValue.n,
             previousValue |-> found.previousValue,
             lastUpdatedDate |-> found.lastUpdatedDate,
             percentChange |-> PercentChange(currentValue, found.previousValue),
             medianPrice |-> Round(Ratio(currentValue.n, 1)),
             averagePrice |-> Round(avgPrice),
             minPrice |-> Round(Ratio(minPrice, 1)),
             maxPrice |-> Round(Ratio(maxPrice, 1))]

\* rows with a few date columns in any order of the file
ScanDates == {DateColumnNames[k] : k \in {1, 2, 13, 14}}

DistinctDates(columns) ==
    \A i, j \in 1..Len(columns) : i # j => columns[i].date # columns[j].date

ScanRows ==
    {columns \in UNION {[1..n -> {DateCell(date, value) : date \in ScanDates,
                                                        value \in CellTexts}] :
                           n \in 0..MaxDateColumns} :
        DistinctDates(columns)}

\* rows with more date columns than the window of the statistics, in the order of
\* their dates: MaxOlderColumns columns before the window, ten columns that all hold
\* the same cell, and the two most recent columns
MaxOlderColumns == 2

TrailingCells == {"", "100", "300"}

LongRow(older, middle, last) ==
    [k \in 1..(MaxOlderColumns + TRAILING_MONTHS) |->
        DateCell(DateColumnNames[k],
                 IF k <= MaxOlderColumns THEN older[k]
                 ELSE IF k <= MaxOlderColumns + TRAILING_MONTHS - 2 THEN middle
                 ELSE last[k - (MaxOlderColumns + TRAILING_MONTHS - 2)])]

\* rows with fewer columns than the window
ShortRow(cells) == [k \in 1..Len(cells) |-> DateCell(DateColumnNames[k], cells[k])]

TrailingRows ==
    {LongRow(older, middle, last) :
        older \in [1..MaxOlderColumns -> TrailingCells], middle \in {"", "250"},
        last \in [1..2 -> TrailingCells]}
    \cup {ShortRow(cells) : cells \in UNION {[1..n -> TrailingCells] : n \in 0..3}}

InitTrailing == AtRest /\ fnInput \in TrailingRows /\ fnOutput = Null

\* a row with a long history is parsed
LongRowParsed == Returns(parseZillowZHVIRow)

SpecTrailing == InitTrailing /\ [][LongRowParsed]_vars

InitScan == AtRest /\ fnInput \in ScanRows /\ fnOutput = Null

\* a row of the wide format is parsed
RowParsed == Returns(parseZillowZHVIRow)

SpecScan == InitScan /\ [][RowParsed]_vars


(* The lines of a file: parseCSVLine *)

MaxLineLength == 5

\* the characters of a line: a letter, the comma, the double quote and the space
LineChars == {"a", ",", "\"", " "}

\* value.trim() on the characters of a field
RECURSIVE TrimStart(_)
TrimStart(chars) ==
    IF chars # << >> /\ Head(chars) = " " THEN TrimStart(Tail(chars)) ELSE chars

RECURSIVE TrimEnd(_)
TrimEnd(chars) ==
    IF chars # << >> /\ chars[Len(chars)] = " "
    THEN TrimEnd(SubSeq(chars, 1, Len(chars) - 1))
    ELSE chars

Trim(chars) == TrimEnd(TrimStart(chars))

\* a test that takes every comma for a delimiter, as line.split(',') does
IsDelimiter_Always(char, insideQuotes) == char = ","

\* char === ',' && !insideQuotes
IsDelimiter(char, insideQuotes) == char = "," /\ ~insideQuotes

\* the loop of parseCSVLine from character i on
RECURSIVE ParseChars(_, _, _, _, _)
ParseChars(line, i, values, currentValue, insideQuotes) ==
    IF i > Len(line) THEN Append(values, Trim(currentValue))
    ELSE LET char == line[i]
         IN IF char = "\""
            THEN ParseChars(line, i + 1, values, currentValue, ~insideQuotes)
            ELSE IF IsDelimiter(char, insideQuotes)
            THEN ParseChars(line, i + 1, Append(values, Trim(currentValue)), << >>,
                            insideQuotes)
            ELSE ParseChars(line, i + 1, values, Append(currentValue, char), insideQuotes)

\* parseCSVLine(line): the fields of the line, each a sequence of characters
parseCSVLine(line) == ParseChars(line, 1, << >>, << >>, FALSE)

Lines == UNION {[1..n -> LineChars] : n \in 0..MaxLineLength}

InitLine == AtRest /\ fnInput \in Lines /\ fnOutput = Null

\* parseCSVLine(line) returns
LineParsed == Returns(parseCSVLine)

SpecLine == InitLine /\ [][LineParsed]_vars


(* The record shown for a market: transformToMarketPriceData *)

\* statistics of the old format: no saleData, the prices on the record itself
NoSaleData ==
    [present |-> FALSE, averagePrice |-> 0, medianPrice |-> 0, minPrice |-> 0, maxPrice |-> 0]

\* changes in tenths of a percent (0: zero or left out), and prices (0: zero or left out)
PercentChanges == {0 - 21, 0, 52}

Prices == {0, 420000, 750000}

StatsInputs ==
    {MarketStats("Austin-TX", "Austin", SaleData(averagePrice, medianPrice, minPrice, maxPrice),
                 0, 0, percentChange) :
        averagePrice \in {0, 580000}, medianPrice \in {0, 550000},
        minPrice \in Prices, maxPrice \in Prices, percentChange \in PercentChanges}
    \cup {MarketStats("Austin-TX", "Austin", NoSaleData, averagePrice, medianPrice,
                      percentChange) :
              averagePrice \in {0, 580000}, medianPrice \in {0, 550000},
              percentChange \in PercentChanges}

InitTransform == AtRest /\ fnInput \in StatsInputs /\ fnOutput = Null

\* transformToMarketPriceData(market.id, market.name, stats) on the statistics
TransformStats(stats) == transformToMarketPriceData(stats.id, stats.city, stats)

\* transformToMarketPriceData returns
TransformReturns == Returns(TransformStats)

SpecTransform == InitTransform /\ [][TransformReturns]_vars

-----------------------------------------------------------------------------
(* Properties of BaseProvider (specification Spec) *)

\* a fetched result with at least one non-zero price field
HasPrice(stats) ==
    /\ stats.t = "stats"
    /\ \/ stats.saleData.averagePrice # 0
       \/ stats.saleData.medianPrice # 0
       \/ stats.averagePrice # 0
       \/ stats.medianPrice # 0

\* less than its ttl has passed since the record was stored
WithinTtl(r, t) == Gt(Plus(r.timestamp, r.ttl), t)

\* the puts of task p that are still pending
PendingPuts(p) == {i \in 1..Len(txQueue) : txQueue[i].owner = p /\ txQueue[i].op = "put"}

\* task p has returned from getMarketStats
Returned(p) ==
    /\ proc[p].call = "getMarketStats"
    /\ proc[p].pc = "done"
    /\ proc[p].ret.kind = "resolved"

\* C1: a getMarketStats(location) that reads the cache, misses, and fetches a result
\* with a price has, when it returns, called the fetch once and APICache.set once;
\* the set was on the key <id>:market-stats:<location>, is no longer pending, and
\* with the storage working the record at the key holds the fetched result.
C1_ColdCacheOneFetchOneWrite ==
    /\ \A p \in Procs :
          (Returned(p) /\ ~proc[p].force /\ proc[p].nFetch > 0 /\ HasPrice(proc[p].fetched))
          => /\ proc[p].nGet = 1
             /\ proc[p].nFetch = 1
             /\ proc[p].nSet = 1
             /\ PendingPuts(p) = {}
             /\ proc[p].ret.val = proc[p].fetched
             /\ (dbInstance /\ idb = "ok")
                => /\ HasRecord(store, <<proc[p].prov, "market-stats", proc[p].arg>>)
                   /\ RecordAt(store, <<proc[p].prov, "market-stats", proc[p].arg>>).data
                         = proc[p].fetched
    /\ \A p \in Procs : \A i \in PendingPuts(p) :
          proc[p].call = "getMarketStats"
          => txQueue[i].rec.key = <<proc[p].prov, "market-stats", proc[p].arg>>

C1_Witness ==
    \E p \in Procs :
        /\ Returned(p) /\ ~proc[p].force /\ proc[p].nFetch = 1 /\ proc[p].nSet = 1
        /\ proc[p].nRemove = 0
        /\ proc[p].fetched = StatsA
        /\ dbInstance /\ idb = "ok"
        /\ RecordAt(store, <<"mock", "market-stats", "Austin, TX">>).data = StatsA

\* the step in which the cache read of a getMarketStats of task p is answered
CacheReadAnswered(p) ==
    /\ proc[p].call = "getMarketStats"
    /\ proc[p].pc = "waitReq"
    /\ proc[p].cop = "get"
    /\ idb = "ok"
    /\ proc'[p].pc # "waitReq"

\* C2: a getMarketStats(location, false) whose cache read finds the record of the key
\* within its ttl returns the payload of that record and does not call the fetch.
C2_WarmCacheNoFetch ==
    [][\A p \in Procs :
          (CacheReadAnswered(p) /\ HasRecord(store, proc[p].key)
             /\ WithinTtl(RecordAt(store, proc[p].key), now))
          => /\ proc'[p].pc = "done"
             /\ proc'[p].ret = Resolved(RecordAt(store, proc[p].key).data)
             /\ proc'[p].nFetch = 0
             /\ proc'[p].nSet = 0]_vars

C2_Witness ==
    \E p \in Procs :
        /\ Returned(p) /\ ~proc[p].force /\ proc[p].nFetch = 0
        /\ proc[p].ret.val = StatsB
        /\ now > 0

ForcedWriteExecuted(p) ==
    /\ proc[p].call = "getMarketStats"
    /\ proc[p].force
    /\ proc[p].pc = "waitReq"
    /\ idb = "ok"
    /\ proc'[p].pc # "waitReq"

PassesValidationGate(stats) ==
    validateMarketData(transformToMarketPriceData(stats.id, stats.city, stats))

\* C6 as stated: no fetched result that fails the validation gate is ever a record
\* of the cache.
C6_NoPoisoning ==
    \A r \in store : r.data.t = "stats" => PassesValidationGate(r.data)

\* task p has been thrown the error of its concrete fetch
FetchThrew(p) ==
    /\ proc[p].call \in {"getMarketStats", "searchProperties"}
    /\ proc[p].pc = "done"
    /\ proc[p].fetched.t = "error"

\* C10 as stated: when the concrete fetch throws, the caller gets the same error and
\* the call has written, overwritten and removed nothing.
C10_FetchErrorLeavesCacheUntouched ==
    \A p \in Procs :
        FetchThrew(p)
        => /\ proc[p].ret = Rejected(proc[p].fetched)
           /\ proc[p].nSet = 0
           /\ proc[p].nRemove = 0

\* C10 amended: when the concrete fetch throws, the caller gets the same error and
\* the call has written and overwritten nothing; the one change it may have made is
\* the eviction of the expired record of its own key by its cache read (never on a
\* forced refresh).
C10_FetchErrorRethrown ==
    /\ [](\A p \in Procs :
            FetchThrew(p)
            => /\ proc[p].ret = Rejected(proc[p].fetched)
               /\ proc[p].nSet = 0
               /\ PendingPuts(p) = {}
               /\ proc[p].nRemove <= 1
               /\ proc[p].nRemove = 1 => ~proc[p].force /\ proc[p].key \in observedExpired)
    /\ [][\A p \in Procs :
            (proc[p].call \in {"getMarketStats", "searchProperties"}
               /\ proc'[p].nRemove > proc[p].nRemove)
            => /\ store' = store
               /\ HasRecord(store, proc[p].key)
               /\ ~WithinTtl(RecordAt(store, proc[p].key), now)
               /\ txQueue' = Tail(txQueue) \o
                     <<[op |-> "delete", key |-> proc[p].key, rec |-> NoRecord,
                        upper |-> 0, owner |-> 0]>>]_vars

C10_Witness ==
    \E p \in Procs :
        /\ FetchThrew(p)
        /\ proc[p].call = "searchProperties"
        /\ proc[p].nRemove = 1
        /\ proc[p].ret = Rejected(Err("Network Error"))

-----------------------------------------------------------------------------
(* Properties of IndexedDBCache (specification SpecCache) *)

\* the step in which the request of a direct call cop of task p succeeds
DirectAnswered(p, cop) ==
    /\ proc[p].call = cop
    /\ proc[p].pc = "waitReq"
    /\ idb = "ok"
    /\ proc'[p].pc = "done"

\* C4 as stated: a get on a record stored at t0 with ttl T returns the payload when
\* now - t0 < T and null when now - t0 >= T, the instant now - t0 = T included.
C4_ExpiryCorrectness ==
    [][\A p \in Procs :
          (DirectAnswered(p, "get") /\ HasRecord(store, proc[p].key)
             /\ RecordAt(store, proc[p].key).expiresAt
                   = Plus(RecordAt(store, proc[p].key).timestamp,
                          RecordAt(store, proc[p].key).ttl))
          => LET r == RecordAt(store, proc[p].key) IN
             proc'[p].ret = IF WithinTtl(r, now) THEN Resolved(r.data) ELSE Resolved(Null)]_vars

\* C5: with the storage working, a get on a key whose record was set less than its
\* ttl ago (in particular immediately after the set) returns the payload of that
\* record; a put replaces the record of its key, so the store never holds two
\* records of one key and the get returns the payload set last.
C5_SetGetRoundTrip ==
    /\ [](\A r1 \in store : \A r2 \in store : r1.key = r2.key => r1 = r2)
    /\ [][\A p \in Procs :
            (DirectAnswered(p, "get") /\ HasRecord(store, proc[p].key)
               /\ WithinTtl(RecordAt(store, proc[p].key), now))
            => proc'[p].ret = Resolved(RecordAt(store, proc[p].key).data)]_vars
    /\ [][\A p \in Procs :
            DirectAnswered(p, "set")
            => /\ RecordsAt(store', proc[p].key) = {Front.rec}
               /\ Front.rec.data = proc[p].data
               /\ Front.rec.ttl = proc[p].ttl
               /\ \A r \in store : r.key # proc[p].key => r \in store'
               /\ proc'[p].ret = Resolved(Void)]_vars

\* a get has returned the payload of a record that replaced an earlier one
C5_Witness ==
    \E p \in Procs :
        /\ proc[p].call = "get" /\ proc[p].pc = "done"
        /\ proc[p].ret = Resolved(StatsB)
        /\ HasRecord(store, proc[p].key)
        /\ RecordAt(store, proc[p].key).data = StatsB
        /\ RecordAt(store, proc[p].key).timestamp = now
        /\ now > 0

\* C7 as stated: every IndexedDBCache call resolves, and with the storage
\* unavailable it resolves with null, undefined, 0 or the empty summary.
C7_CacheNeverThrows ==
    \A p \in Procs :
        (proc[p].call \in CacheOps /\ proc[p].pc = "done")
        => /\ proc[p].ret.kind = "resolved"
           /\ ~dbInstance => proc[p].ret.val = CatchResult(proc[p].call)

\* C8: a getStats() issued after a get has observed the expiry of the record of a
\* key (and no set on the key was issued since) does not list the key.
C8_EagerEviction ==
    \A p \in Procs :
        (proc[p].call = "getStats" /\ proc[p].pc = "done" /\ proc[p].ret.kind = "resolved")
        => /\ proc[p].ret.val.keys \cap proc[p].snap = {}
           /\ proc[p].ret.val.count = Cardinality(proc[p].ret.val.keys)

C8_Witness ==
    \E p \in Procs :
        /\ proc[p].call = "getStats" /\ proc[p].pc = "done"
        /\ proc[p].ret.kind = "resolved"
        /\ proc[p].snap # {}
        /\ proc[p].ret.val.count = 1
        /\ dbInstance /\ idb = "ok"

\* C9 as stated: getStats() counts and lists no record whose expiresAt lies before
\* the current time.
C9_StatsNeverReportExpired ==
    [][\A p \in Procs :
          DirectAnswered(p, "getStats")
          => /\ \A r \in store : Gt(now, r.expiresAt) => r.key \notin proc'[p].ret.val.keys
             /\ proc'[p].ret.val.count = Cardinality({r \in store : ~Gt(now, r.expiresAt)})]_vars

-----------------------------------------------------------------------------
(* Properties of the optional property search (specification Spec) *)

\* C11: searchProperties(query, forceRefresh) of a provider without the property
\* search (CSV, Zillow metrics) is rejected with the unsupported-operation error in
\* the step of the call, for both values of forceRefresh: no cache read, no fetch,
\* no write, and the store, the pending requests and the database handle unchanged.
C11_UnsupportedSearchFailsFast ==
    /\ [](\A p \in Procs :
            (proc[p].call = "searchProperties" /\ proc[p].prov \in {"csv", "zillow-metrics"})
            => /\ proc[p].pc = "done"
               /\ proc[p].ret.kind = "rejected"
               /\ proc[p].ret.val.t = "error"
               /\ proc[p].ret.val.e[2] = "does not support property search"
               /\ proc[p].nGet = 0 /\ proc[p].nFetch = 0 /\ proc[p].nSet = 0
               /\ proc[p].nRemove = 0)
    /\ [][\A p \in Procs :
            (proc[p].pc = "idle" /\ proc'[p].call = "searchProperties"
               /\ proc'[p].prov \in {"csv", "zillow-metrics"})
            => /\ store' = store
               /\ txQueue' = txQueue
               /\ openCalls' = openCalls
               /\ initPromise' = initPromise]_vars

\* a forced and an unforced search of the CSV provider were rejected over a cache
\* that holds a record
C11_Witness ==
    \E p \in Procs :
        /\ proc[p].call = "searchProperties" /\ proc[p].prov = "csv"
        /\ proc[p].force
        /\ proc[p].pc = "done"
        /\ proc[p].ret = Rejected(Err(<<"CSV File", "does not support property search">>))
        /\ store # {}

-----------------------------------------------------------------------------
(* Properties of the provider factory (specification SpecFactory) *)

\* the provider type the stored selection and the build-time default resolve to
ResolvedType ==
    IF selection.present THEN selection.value
    ELSE IF envProvider.present /\ envProvider.value # "" THEN envProvider.value
    ELSE "mock"

\* createProvider() has returned
ProviderCreated == provider.class # "none"

\* C12: when the provider id in force is unknown or not yet implemented (anything
\* but 'mock', 'csv' and 'zillow-metrics'; 'rentcast' is such an id), the provider
\* createProvider() returns is a MockProvider.
C12_FallbackToMock ==
    (ProviderCreated /\ ResolvedType \notin {"mock", "csv", "zillow-metrics"})
    => provider = NewMockProvider

\* an unknown stored selection over a valid build-time default
C12_Witness ==
    /\ ProviderCreated
    /\ selection = Item("realtor")
    /\ envProvider = Item("csv")
    /\ provider.class = "MockProvider"

\* C13 as stated: the provider createProvider() returns is configured at the moment
\* it is returned, for every stored selection and build-time default.
C13_AlwaysWorkingProvider ==
    ProviderCreated => isConfigured(provider)

\* C14: getProviderType() returns the stored selection whenever one is stored,
\* whatever the build-time default is; with nothing stored it returns
\* VITE_DATA_PROVIDER, or 'mock' when that is unset or empty.
C14_SelectionOverridesDefault ==
    providerType.present
    => /\ selection.present => providerType.value = selection.value
       /\ ~selection.present
          => providerType.value = IF envProvider.present /\ envProvider.value # ""
                                  THEN envProvider.value ELSE "mock"

\* the stored selection won over a different build-time default
C14_Witness ==
    /\ providerType = Item("csv")
    /\ selection = Item("csv")
    /\ envProvider = Item("zillow-metrics")

-----------------------------------------------------------------------------
(* Properties of clearExpired and of the records (specification SpecCache) *)

\* the step in which task p, in IndexedDBCache method cop, reads the clock and puts
\* its request on a transaction
RequestIssued(p, cop) ==
    /\ proc'[p].cop = cop
    /\ proc'[p].pc = "waitReq"
    /\ proc[p].pc # "waitReq"

\* C15: clearExpired() reads the clock once (now); when its cursor runs it deletes
\* exactly the records with expiresAt <= now, leaves every other record, those with
\* an infinite ttl included, as it was, and returns the number of records deleted.
C15_ClearExpiredExact ==
    /\ [][\A p \in Procs :
            RequestIssued(p, "clearExpired")
            => /\ txQueue'[Len(txQueue')].op = "cursor"
               /\ txQueue'[Len(txQueue')].upper = now]_vars
    /\ [][\A p \in Procs :
            DirectAnswered(p, "clearExpired")
            => LET upper == Front.upper
                   deleted == {r \in store : ~IsInf(r.expiresAt) /\ r.expiresAt <= upper}
               IN /\ store' = store \ deleted
                  /\ \A r \in store : IsInf(r.expiresAt) => r \in store'
                  /\ proc'[p].ret = Resolved(Num(Cardinality(deleted)))]_vars

\* a clearExpired() has deleted one record and left a record that never expires
C15_Witness ==
    \E p \in Procs :
        /\ proc[p].call = "clearExpired" /\ proc[p].pc = "done"
        /\ proc[p].ret = Resolved(Num(1))
        /\ \E r \in store : IsInf(r.expiresAt)
        /\ dbInstance /\ idb = "ok"

-----------------------------------------------------------------------------
(* Properties of concurrent cache calls (specification SpecConcurrent) *)

\* C16 as stated: under every interleaving of get, set and clearExpired of two
\* tasks, every record in the store is a whole record as some set built it, a get
\* returns the payload of the record at its key or null, and a record written by a
\* set that was in flight when clearExpired was called, with expiresAt later than
\* the time the clearExpired read, has a record at its key when the clearExpired
\* resolves.
C16_ClearExpiredConcurrentSafe ==
    /\ [](\A r \in store :
            /\ r.data \in DirectData
            /\ r = NewRecord(r.key, r.data, r.ttl, r.timestamp, 0))
    /\ [][\A p \in ConcProcs :
            DirectAnswered(p, "get")
            => \/ proc'[p].ret = Resolved(Null)
               \/ /\ HasRecord(store, proc[p].key)
                  /\ proc'[p].ret = Resolved(RecordAt(store, proc[p].key).data)]_vars
    /\ [][\A p \in ConcProcs :
            DirectAnswered(p, "clearExpired")
            => \A r \in proc[p].snap :
                  Gt(r.expiresAt, Front.upper) => HasRecord(store', r.key)]_vars

-----------------------------------------------------------------------------
(* Properties of the records (specification SpecCache) *)

\* C17: a record written with ttl = Infinity has expiresAt = Infinity; a get on its
\* key returns its payload at every later time, no cursor of clearExpired removes
\* it, and it leaves the store only by a delete on its key (remove), a clear, or a
\* put on its key (an overwriting set).
C17_InfiniteTtlNeverExpires ==
    /\ [](\A r \in store : IsInf(r.ttl) => IsInf(r.expiresAt))
    /\ [][\A p \in Procs :
            (DirectAnswered(p, "get") /\ HasRecord(store, proc[p].key)
               /\ IsInf(RecordAt(store, proc[p].key).ttl))
            => /\ proc'[p].ret = Resolved(RecordAt(store, proc[p].key).data)
               /\ store' = store
               /\ txQueue' = Tail(txQueue)]_vars
    /\ [][\A r \in store :
            (IsInf(r.ttl) /\ r \notin store')
            => \/ Front.op = "delete" /\ Front.key = r.key
               \/ Front.op = "clear"
               \/ Front.op = "put" /\ Front.rec.key = r.key]_vars

\* a record with an infinite ttl was read two milliseconds or more after it was set
C17_Witness ==
    \E p \in Procs :
        /\ proc[p].call = "get" /\ proc[p].pc = "done"
        /\ proc[p].ret = Resolved(StatsA)
        /\ HasRecord(store, proc[p].key)
        /\ IsInf(RecordAt(store, proc[p].key).ttl)
        /\ RecordAt(store, proc[p].key).timestamp = 0
        /\ now >= 2

\* C18 as stated: every record in the store has expiresAt = timestamp + ttl.
C18_ExpiresAtIsTimestampPlusTtl ==
    \A r \in store : r.expiresAt = Plus(r.timestamp, r.ttl)

-----------------------------------------------------------------------------
(* Properties of the CSV provider (specification SpecCsv) *)

\* the markets of the dataset persisted under CSV_MARKETS_STORAGE_KEY, by lookup key
PersistedMarkets ==
    IF HasRecord(store, CSV_MARKETS_STORAGE_KEY)
       /\ RecordAt(store, CSV_MARKETS_STORAGE_KEY).data.t = "markets"
    THEN cacheMarkets(RecordAt(store, CSV_MARKETS_STORAGE_KEY).data.items)
    ELSE EmptyMap

\* the step in which a getMarketStats of the CSV provider returns to task p, issued
\* after waitForDataLoad() resolved on a load that ended with data, the storage
\* working and the location being a market of the persisted dataset
CsvStatsReturned(p) ==
    /\ proc[p].call = "getMarketStats" /\ proc[p].prov = "csv"
    /\ proc[p].pc # "done" /\ proc'[p].pc = "done"
    /\ idb = "ok"
    /\ dataLoadAwaited /\ provider.isDataLoaded
    /\ proc[p].arg \in DOMAIN PersistedMarkets

\* waitForDataLoad() resolves, never rejects, and only once the load task has ended
WaitForDataLoadResolves ==
    \A p \in Procs :
        (proc[p].call = "waitForDataLoad" /\ proc[p].pc = "done")
        => /\ proc[p].ret = Resolved(Void)
           /\ provider.loadingPromise = "fulfilled"
           /\ proc[Loader].pc = "idle"

-----------------------------------------------------------------------------
(* Properties of the search hook (specification SpecSearch) *)

\* task p has a search request in flight: its searchProperties has not returned
SearchInFlight(p) ==
    proc[p].call = "performSearch" /\ proc[p].pc \in {"waitDB", "waitReq", "resumed", "fetching"}

\* what a request for the query may show: its markets, or its fallback on an error
ShownFor(query) == {MarketsOf(SearchData(query)), searchMockData(query)}

\* C20 as stated: a search started while an earlier one is in flight cancels the
\* earlier one: once no request is in flight the results shown are those of the
\* request started last, and once that request has ended no earlier request
\* changes the results when its response arrives.
C20_LatestSearchWins ==
    /\ []((latest.task # 0 /\ \A p \in SearchProcs : ~SearchInFlight(p))
            => results \in ShownFor(latest.query))
    /\ [][\A p \in SearchProcs :
            (/\ SearchInFlight(p) /\ ~SearchInFlight(p)'
             /\ latest.task # p /\ latest.task # 0 /\ ~SearchInFlight(latest.task))
            => results' = results]_vars

-----------------------------------------------------------------------------
(* Properties of the debounced search (specification SpecDebounce) *)

IsCall(i) == searchLog[i].ev = "search"

IsRequest(i) == searchLog[i].ev = "request"

\* the position of the first search call after position i, or one past the end
NextCall(i) ==
    IF \E k \in (i + 1)..Len(searchLog) : IsCall(k)
    THEN CHOOSE k \in (i + 1)..Len(searchLog) :
             IsCall(k) /\ \A m \in (i + 1)..(k - 1) : ~IsCall(m)
    ELSE Len(searchLog) + 1

\* the calls of performSearch made after the search call at i and before the next one
RequestsAfter(i) == {r \in (i + 1)..(NextCall(i) - 1) : IsRequest(r)}

\* the search call at i is the last of its burst: none follows within 300 ms, and
\* the quiet period after it is over
EndsBurst(i) ==
    /\ IsCall(i)
    /\ IF NextCall(i) <= Len(searchLog)
       THEN searchLog[NextCall(i)].at >= searchLog[i].at + DEBOUNCE_MS
       ELSE now >= searchLog[i].at + DEBOUNCE_MS /\ timers = {}

\* the search call at i is followed by another less than 300 ms later
InsideBurst(i) ==
    /\ IsCall(i)
    /\ NextCall(i) <= Len(searchLog)
    /\ searchLog[NextCall(i)].at < searchLog[i].at + DEBOUNCE_MS

\* clearResults() was called after the search call at i, before its timer was due
ClearedAfter(i) ==
    \E c \in (i + 1)..(NextCall(i) - 1) :
        searchLog[c].ev = "clear" /\ searchLog[c].at < searchLog[i].at + DEBOUNCE_MS

\* every performSearch is the work of the search call before it, 300 ms or more
\* later, with its query and with no search call in between
RequestOnlyAfterQuiet ==
    \A r \in 1..Len(searchLog) :
        IsRequest(r)
        => \E j \in 1..(r - 1) :
              /\ IsCall(j) /\ NextCall(j) > r
              /\ searchLog[j].query = searchLog[r].query
              /\ searchLog[r].at >= searchLog[j].at + DEBOUNCE_MS

\* no performSearch for a query that another search call followed within 300 ms
NoRequestInsideBurst ==
    \A j \in 1..Len(searchLog) : InsideBurst(j) => RequestsAfter(j) = {}

\* C21 as stated: performSearch is called only 300 ms after a search call with no
\* search call in between, and of a burst of search calls, each less than 300 ms
\* after the one before, exactly the last query is searched, once.
C21_DebounceOneRequestPerBurst ==
    /\ RequestOnlyAfterQuiet
    /\ NoRequestInsideBurst
    /\ \A e \in 1..Len(searchLog) :
          EndsBurst(e) => Cardinality(RequestsAfter(e)) = 1

\* C21 amended: performSearch is called only 300 ms after a search call with no
\* search call in between, and of a burst of search calls at most the last query is
\* searched: once if it has two characters or more and clearResults() is not called
\* before its timer is due, and not at all otherwise.
C21_DebounceAtMostOnePerBurst ==
    /\ RequestOnlyAfterQuiet
    /\ NoRequestInsideBurst
    /\ \A e \in 1..Len(searchLog) :
          EndsBurst(e)
          => Cardinality(RequestsAfter(e)) =
                IF TooShort(searchLog[e].query) \/ ClearedAfter(e) THEN 0 ELSE 1

\* a burst of two search calls 100 ms apart ended in one performSearch, for the second
C21_Witness ==
    /\ Len(searchLog) = 3
    /\ searchLog[1] = [ev |-> "search", query |-> "au", at |-> 0]
    /\ searchLog[2] = [ev |-> "search", query |-> "mi", at |-> 100]
    /\ searchLog[3] = [ev |-> "request", query |-> "mi", at |-> 400]

-----------------------------------------------------------------------------
(* Properties of duplicate fetches (specification SpecDuplicate) *)

\* both tasks have completed a getMarketStats that missed the cache and fetched
BothFetched ==
    \A p \in ConcProcs :
        /\ proc[p].call = "getMarketStats" /\ proc[p].pc = "done"
        /\ proc[p].nGet = 1 /\ proc[p].nFetch = 1
        /\ proc[p].key = getMarketStatsCacheKey("mock", "Austin, TX")

\* C22 as stated: after two getMarketStats calls for one location have both missed
\* the empty cache, fetched and completed, the cache holds one record at the key and
\* its payload is the value each of the two callers received.
C22_DuplicateFetchEquivalent ==
    BothFetched
    => /\ Cardinality(RecordsAt(store, getMarketStatsCacheKey("mock", "Austin, TX"))) = 1
       /\ \A p \in ConcProcs :
             proc[p].ret =
                Resolved(RecordAt(store, getMarketStatsCacheKey("mock", "Austin, TX")).data)

-----------------------------------------------------------------------------
(* Properties of the database initialisation (specification SpecConcurrent) *)

\* C23: indexedDB.open is called at most once however many cache operations start
\* before the database is open; every operation that waits for the database waits
\* for that one initialisation; and once the handle is cached no operation opens
\* the database again or waits for it.
C23_InitialisationOneShot ==
    /\ [](openCalls <= 1)
    /\ [](\A p \in ConcProcs :
             proc[p].pc = "waitDB" => openCalls = 1 /\ initPromise \in {"pending", "fulfilled"})
    /\ [](dbInstance => openCalls = 1 /\ initPromise = "fulfilled")
    /\ [][dbInstance
            => /\ openCalls' = openCalls
               /\ initPromise' = initPromise
               /\ \A p \in ConcProcs :
                     proc[p].pc = "idle" => proc'[p].pc # "waitDB"]_vars

\* two operations started before the database was open wait for one indexedDB.open
C23_Witness ==
    /\ \A p \in ConcProcs : proc[p].pc = "waitDB"
    /\ initPromise = "pending"
    /\ openCalls = 1
    /\ ~dbInstance

-----------------------------------------------------------------------------
(* Properties of uploadCSVFile (specification SpecUpload) *)

\* the upload of task p has returned
UploadReturned(p) == proc[p].call = "uploadCSVFile" /\ proc[p].pc = "done"

\* uploadCSVFile resolves, with a success that counts at least one market or with a
\* failure that carries a reason
UploadNeverThrows ==
    \A p \in Procs :
        UploadReturned(p)
        => /\ proc[p].ret.kind = "resolved"
           /\ \/ proc[p].ret.val.success /\ proc[p].ret.val.markets >= 1
              \/ ~proc[p].ret.val.success /\ Len(proc[p].ret.val.error) >= 1

\* C24: uploadCSVFile never throws; it returns a success with n >= 1 markets or a
\* failure with a reason, and when it returns a failure the markets in memory, the
\* persisted dataset and the stored file name and data source are what they were
\* when it was called.
C24_UploadFailureChangesNothing ==
    /\ UploadNeverThrows
    /\ \A p \in Procs :
          UploadReturned(p) /\ ~proc[p].ret.val.success => ProviderData = proc[p].before

\* the same without the persisted dataset: what a failed upload does leave alone
UploadFailureKeepsMemory ==
    \A p \in Procs :
        UploadReturned(p) /\ ~proc[p].ret.val.success
        => /\ provider.cachedMarkets = proc[p].before.cachedMarkets
           /\ provider.isDataLoaded = proc[p].before.isDataLoaded
           /\ csvFileName = proc[p].before.filename
           /\ csvDataSource = proc[p].before.source

-----------------------------------------------------------------------------
(* Properties of the error classification (specification SpecAPIError) *)

\* the kind of a failed request: what happened
FailureKind(error) ==
    IF error.response # Null
    THEN IF error.response.status = 429 THEN "rate-limited"
         ELSE IF error.response.status \in {401, 403} THEN "auth-invalid"
         ELSE "other-failure"
    ELSE IF error.code = Item("ECONNABORTED") THEN "timeout"
    ELSE "network-unreachable"

\* the kind a caller reads off the error value alone
KindOfError(e) ==
    IF e.isRateLimit THEN "rate-limited"
    ELSE IF e.statusCode \in {Num(401), Num(403)} THEN "auth-invalid"
    ELSE IF e.statusCode # Null THEN "other-failure"
    ELSE IF e.message = <<"Request timeout. Please try again.">> THEN "timeout"
    ELSE "network-unreachable"

\* C25: the error thrown for a failed request tells the caller which of the five
\* kinds the failure was (rate-limited, auth-invalid, other-failure, timeout,
\* network-unreachable); isRateLimit is true exactly for status 429.
C25_FailureKindReadable ==
    fnOutput # Null
    => /\ fnOutput.val.name = "APIError"
       /\ KindOfError(fnOutput.val) = FailureKind(fnInput)
       /\ fnOutput.val.isRateLimit <=> (fnInput.response # Null /\ fnInput.response.status = 429)
       /\ fnOutput.val.isRateLimit <=> fnOutput.val.statusCode = Num(429)

\* a timeout was classified, and its error differs from the one of a network failure
C25_Witness ==
    /\ fnOutput # Null
    /\ FailureKind(fnInput) = "timeout"
    /\ fnOutput.val # Intercept(AxiosError(Null, Item("ERR_NETWORK"), "Network Error"))

-----------------------------------------------------------------------------
(* Properties of transformToMarketPriceData (specification SpecTransform) *)

\* C26: changeDirection is 'up' exactly when the percentChange of the statistics is
\* above zero, 'down' exactly when it is below zero and 'neutral' exactly when it is
\* zero.
C26_DirectionBySign ==
    fnOutput # Null
    => /\ fnOutput.val.changeDirection = "up" <=> fnInput.percentChange > 0
       /\ fnOutput.val.changeDirection = "down" <=> fnInput.percentChange < 0
       /\ fnOutput.val.changeDirection = "neutral" <=> fnInput.percentChange = 0

\* what the code does guarantee: a change other than zero keeps its sign, and no
\* record is ever 'neutral'
DirectionOfNonZeroChange ==
    fnOutput # Null
    => /\ fnInput.percentChange > 0 => fnOutput.val.changeDirection = "up"
       /\ fnInput.percentChange < 0 => fnOutput.val.changeDirection = "down"
       /\ fnOutput.val.changeDirection # "neutral"

-----------------------------------------------------------------------------
(* Properties of detectCSVFormat (specification SpecDetect) *)

\* the names of DateLikeNames that are of the form YYYY-MM-DD
DateNames == {"2024-01-31", "2024-02-29", "9999-99-99"}

\* C27: a header row is classified 'zillow-zhvi' if and only if it contains regionid,
\* regionname, statename and at least one column named YYYY-MM-DD; every other row,
\* the one with only city and state among them, is classified 'simple'.
C27_WideIffRegionColumnsAndDate ==
    fnOutput # Null
    => /\ fnOutput.val \in {"zillow-zhvi", "simple"}
       /\ fnOutput.val = "zillow-zhvi"
             <=> /\ Includes(fnInput, "regionid")
                 /\ Includes(fnInput, "regionname")
                 /\ Includes(fnInput, "statename")
                 /\ \E i \in 1..Len(fnInput) : fnInput[i] \in DateNames
       /\ fnInput = <<"state", "city">> => fnOutput.val = "simple"

\* a row with the three region columns and a date column was classified wide
C27_Witness ==
    /\ fnOutput # Null
    /\ fnInput = <<"regionid", "regionname", "statename", "2024-01-31">>
    /\ fnOutput.val = "zillow-zhvi"

-----------------------------------------------------------------------------
(* Properties of the rows of the wide format (specifications SpecScan, SpecTrailing) *)

\* the date columns of the row that hold a number
Numbered(columns) ==
    {columns[i] : i \in {k \in 1..Len(columns) : parseFloat(columns[k].value) # NaN}}

\* the one with the latest date
Newest(cells) ==
    CHOOSE c \in cells : \A d \in cells : DateRank(d.date) <= DateRank(c.date)

\* C28: currentValue is the number of the newest date column that holds one,
\* previousValue the number of the newest column before it that holds one, and
\* percentChange is (currentValue - previousValue) / previousValue * 100 when there is
\* a previousValue above zero, and 0 otherwise; a row without any number yields nothing.
C28_PercentChangeOfNewestTwo ==
    fnOutput # Null
    => LET numbered == Numbered(fnInput)
           row == fnOutput.val
       IN IF numbered = {} THEN row = Null
          ELSE LET newest == Newest(numbered)
                   older == numbered \ {newest}
                   current == parseFloat(newest.value).n
               IN /\ row # Null
                  /\ row.currentValue = current
                  /\ row.lastUpdatedDate = newest.date
                  /\ row.percentChange.den # 0
                  /\ IF older = {} THEN row.previousValue = Null /\ row.percentChange.num = 0
                     ELSE LET previous == parseFloat(Newest(older).value).n
                          IN /\ row.previousValue = Num(previous)
                             /\ IF previous > 0
                                THEN row.percentChange.num * previous
                                        = (current - previous) * 100 * row.percentChange.den
                                ELSE row.percentChange.num = 0

\* a row whose newest column is empty and whose columns are not in the order of
\* their dates: the change of 150 % is computed over the empty column
C28_Witness ==
    /\ fnOutput # Null
    /\ fnInput = <<DateCell("2024-02-29", ""), DateCell("2023-01-31", "100"),
                   DateCell("2024-01-31", "250")>>
    /\ fnOutput.val.percentChange = Ratio(15000, 100)


\* the sum of the numbers of a set of cells
RECURSIVE SumCells(_)
SumCells(cells) ==
    IF cells = {} THEN 0
    ELSE LET c == CHOOSE c \in cells : TRUE
         IN parseFloat(c.value).n + SumCells(cells \ {c})

\* the cells with the n latest dates of a set of cells
RECURSIVE Latest(_, _)
Latest(cells, n) ==
    IF n = 0 \/ cells = {} THEN {}
    ELSE {Newest(cells)} \cup Latest(cells \ {Newest(cells)}, n - 1)

\* minPrice, maxPrice and averagePrice of the row are the least, the greatest and the
\* rounded mean of the numbers of cells
StatsOver(row, cells) ==
    /\ \E c \in cells : row.minPrice = parseFloat(c.value).n
    /\ \A c \in cells : row.minPrice <= parseFloat(c.value).n
    /\ \E c \in cells : row.maxPrice = parseFloat(c.value).n
    /\ \A c \in cells : row.maxPrice >= parseFloat(c.value).n
    /\ 2 * Cardinality(cells) * row.averagePrice <= 2 * SumCells(cells) + Cardinality(cells)
    /\ 2 * SumCells(cells) + Cardinality(cells) < 2 * Cardinality(cells) * (row.averagePrice + 1)

\* the three statistics equal currentValue
StatsAreCurrent(row) ==
    /\ row.minPrice = row.currentValue
    /\ row.maxPrice = row.currentValue
    /\ row.averagePrice = row.currentValue

\* C29 as stated: minPrice, maxPrice and averagePrice are computed over the 12 most
\* recent date columns that hold a number, empty columns being skipped, and over
\* fewer only when the row has fewer than 12 numbers.
C29_StatsOverLastTwelveValues ==
    fnOutput # Null /\ fnOutput.val # Null
    => StatsOver(fnOutput.val, Latest(Numbered(fnInput), TRAILING_MONTHS))

\* the cells of the 12 most recent date columns of the row
TrailingWindow(columns) == Latest({columns[i] : i \in 1..Len(columns)}, TRAILING_MONTHS)

\* C29: minPrice, maxPrice and averagePrice are computed over the numbers held by the
\* 12 most recent date columns (by all columns when there are fewer than 12); empty
\* columns among them are left out, not replaced by older ones; when these columns
\* hold no number all three equal currentValue.
C29_StatsOverTrailingColumns ==
    fnOutput # Null /\ fnOutput.val # Null
    => LET recent == Numbered(fnInput) \cap TrailingWindow(fnInput)
       IN IF recent = {} THEN StatsAreCurrent(fnOutput.val)
          ELSE StatsOver(fnOutput.val, recent)

\* a row with 12 numbers or more, one of them older than the 12 most recent columns
\* and one of these columns empty: the maximum leaves out the older 300
C29_Witness ==
    /\ fnOutput # Null
    /\ fnInput = LongRow([k \in 1..MaxOlderColumns |-> "300"], "250", <<"", "100">>)
    /\ fnOutput.val.maxPrice = 250
    /\ fnOutput.val.minPrice = 100

-----------------------------------------------------------------------------
(* Properties of parseCSVLine (specification SpecLine) *)

\* the characters of the line before position i that are double quotes
QuotesBefore(line, i) == {k \in 1..(i - 1) : line[k] = "\""}

\* the commas of the line that have an even number of double quotes before them,
\* and those that have an odd number
CommasOutside(line) ==
    {i \in 1..Len(line) : line[i] = "," /\ Cardinality(QuotesBefore(line, i)) % 2 = 0}

CommasInside(line) ==
    {i \in 1..Len(line) : line[i] = "," /\ Cardinality(QuotesBefore(line, i)) % 2 = 1}

\* the positions of the fields that hold character c
Occurrences(fields, c) ==
    {<<f, k>> \in (1..Len(fields)) \X (1..MaxLineLength + 1) :
        k <= Len(fields[f]) /\ fields[f][k] = c}

\* C30: parseCSVLine returns one field more than the line has commas outside quotes;
\* the commas inside quotes are kept in the fields, the letters are all kept, and no
\* field holds a double quote.
C30_FieldsSplitOutsideQuotes ==
    fnOutput # Null
    => /\ Len(fnOutput.val) = 1 + Cardinality(CommasOutside(fnInput))
       /\ Cardinality(Occurrences(fnOutput.val, ",")) = Cardinality(CommasInside(fnInput))
       /\ Cardinality(Occurrences(fnOutput.val, "a"))
             = Cardinality({i \in 1..Len(fnInput) : fnInput[i] = "a"})
       /\ Occurrences(fnOutput.val, "\"") = {}

\* the line ",",a with its first comma in quotes gives the two fields , and a
C30_Witness ==
    /\ fnOutput # Null
    /\ fnInput = <<"\"", ",", "\"", ",", "a">>
    /\ fnOutput.val = << <<",">>, <<"a">> >>

\* ---------------------------------------------------------------------------
\* The download of the default dataset and its progress
\* ---------------------------------------------------------------------------

\* the content-length values of the response: 0 stands for a missing header
ContentLengths == {0, 2, 4}

\* the sizes of the chunks reader.read() delivers
ChunkSizes == {1, 2}

InitDownload ==
    /\ now = 0
    /\ ticks = 0
    /\ idb \in {"ok", "unavailable"}
    /\ dbInstance = FALSE
    /\ initPromise = "null"
    /\ openCalls = 0
    /\ store = {}
    /\ txQueue = << >>
    /\ proc = [p \in Procs \cup {Loader} |-> IdleProc]
    /\ observedExpired = {}
    /\ selection = Item("csv")
    /\ envProvider = NoItem
    /\ zillowKey = ""
    /\ providerType = NoItem
    /\ provider = NoProvider
    /\ dataLoadAwaited = FALSE
    /\ apiKey = ""
    /\ InitSearchHook
    /\ csvFileName = NoItem
    /\ csvDataSource = NoItem
    /\ localStorageFull \in BOOLEAN
    /\ NoFunctionCall

\* the CSV provider and the load its constructor starts, the download chunk by chunk
NextDownload ==
    \/ CallCreateProvider
    \/ LoadDefaultCSV
    \/ \E total \in ContentLengths : ResponseArrives(total)
    \/ \E n \in ChunkSizes : ChunkRead(n)
    \/ \E items \in ParsedFiles : DefaultCSVParsed(items)
    \/ DefaultCSVFails
    \/ LoadFailed
    \/ DefaultCSVStored
    \/ DataCleared
    \/ OpenSucceeds
    \/ OpenFails
    \/ \E p \in {Loader} : DBReady(p, 0)
    \/ \E p \in {Loader} : DBFailed(p)
    \/ ReqError
    \/ ExecGet
    \/ ExecPut
    \/ ExecDelete
    \/ StorageFault

SpecDownload == InitDownload /\ [][NextDownload]_vars

\* getLoadingProgress()
getLoadingProgress == provider.loadingProgress

\* C31: getLoadingProgress() is within 0..100 in every state of a default-dataset
\* download, for every sequence of received chunks and every content-length
C31_ProgressWithinBounds == getLoadingProgress \in 0..100

\* the progress is 100 only when the load has succeeded
ProgressCompleteOnlyAfterLoad == getLoadingProgress = 100 => provider.isDataLoaded

\* the progress is back to 0 when the load has failed
ProgressResetAfterFailure == provider.loadingPromise = "rejected" => getLoadingProgress = 0


\* the step in which the fetch hook of a getMarketStats of task p returns a result
FetchAnswered(p) ==
    /\ proc[p].call = "getMarketStats"
    /\ proc[p].pc = "fetching"
    /\ proc'[p].pc # "fetching"
    /\ proc'[p].fetched.t \in {"stats", "null"}

CursorRunsNow ==
    /\ txQueue # << >>
    /\ Front.op = "cursor"
    /\ Front.upper = now
    /\ idb = "ok"
    /\ Len(txQueue') < Len(txQueue)

\* get(key) at time t returns the payload of record r
Live(r, t) == ~IsExpired(r, t)

\* C33: get and clearExpired agree on liveness: clearExpired() never deletes a
\* record for which a get at that same instant returns a hit.
C33_ClearExpiredSparesLive ==
    [][CursorRunsNow => \A r \in store \ store' : ~Live(r, now)]_vars


\* task p has returned from a getMarketStats whose get() found the record expired and
\* fired this.remove(key), and which then fetched a result and wrote it with set
ReturnedAfterEviction(p) ==
    /\ Returned(p)
    /\ proc[p].nRemove = 1
    /\ proc[p].nSet = 1
    /\ dbInstance

\* the delete requests on key that are still pending
PendingDeletes(key) ==
    {i \in 1..Len(txQueue) : txQueue[i].op = "delete" /\ txQueue[i].key = key}

UploadedDuringLoad(p) ==
    /\ proc[p].call = "uploadCSVFile"
    /\ proc[p].pc = "done"
    /\ proc[p].ret.val.success
    /\ provider.loadingPromise = "pending"

\* C35: a successful upload is not undone by the constructor-time load: when the
\* load finishes after uploadCSVFile has returned success, the markets in memory,
\* the persisted dataset and the stored data source are those of the uploaded file.
C35_UploadSurvivesLoad ==
    [][\A p \in Procs :
          (UploadedDuringLoad(p) /\ provider'.loadingPromise # "pending" /\ proc'[p] = proc[p])
          => /\ provider'.isDataLoaded
             /\ provider'.cachedMarkets = WithMarkets(provider, proc[p].data.items).cachedMarkets
             /\ HasRecord(store', CSV_MARKETS_STORAGE_KEY)
             /\ RecordAt(store', CSV_MARKETS_STORAGE_KEY).data = proc[p].data
             /\ csvDataSource' = Item("user-upload")]_vars


\* ---------------------------------------------------------------------------
\* Queries to the CSV provider while and after its constructor-time load
\* ---------------------------------------------------------------------------

\* page loads that create the CSV provider, the load the constructor starts, and
\* getMarketStats calls at any moment of it
NextQuery ==
    \/ CallCreateProvider
    \/ LoadedFromStorage
    \/ LoadDefaultCSV
    \/ \E items \in ParsedFiles : DefaultCSVParsed(items)
    \/ DefaultCSVFails
    \/ LoadFailed
    \/ DefaultCSVStored
    \/ DataCleared
    \/ \E p \in Procs, location \in CsvLocations, forceRefresh \in BOOLEAN :
          CallCsvGetMarketStats(p, location, forceRefresh)
    \/ \E p \in Procs : CsvFetchReturns(p)
    \/ OpenSucceeds
    \/ OpenFails
    \/ \E p \in Procs \cup {Loader} : DBReady(p, 0)
    \/ \E p \in Procs \cup {Loader} : DBFailed(p)
    \/ ReqError
    \/ ExecGet
    \/ ExecPut
    \/ ExecDelete
    \/ \E p \in Procs : Finish(p)
    \/ Tick(CACHE_TTL_MARKET_STATS)
    \/ StorageFault

SpecQuery == InitCsv /\ [][NextQuery]_vars

\* task p is in a getMarketStats of the CSV provider
CsvQuery(p) == proc[p].call = "getMarketStats" /\ proc[p].prov = "csv"

\* the records that getMarketStats of the CSV provider has written
CsvStatsRecords == {r \in store : Len(r.key) = 3 /\ r.key[1] = "csv" /\ r.key[2] = "market-stats"}

\* C36 as stated: a getMarketStats of the CSV provider that is called, and so also
\* one that returns, while the constructor-time load is in flight returns null.
C36_QueryDuringLoadReturnsNull ==
    \A p \in Procs :
        (CsvQuery(p) /\ Returned(p) /\ provider.loadingPromise = "pending")
        => proc[p].ret.val = Null

\* C36 amended: a query that finds no data loaded returns null and writes nothing
\* to the cache, so no record of the CSV provider ever holds a null or price-less
\* result; a query answered from the cache returns the payload of such a record;
\* and a query that reaches the dataset after the load has succeeded returns the
\* market the dataset holds for the location.
C36_UnreadyQueryCachesNothing ==
    /\ [](\A r \in CsvStatsRecords : HasPrice(r.data))
    /\ [][\A p \in Procs :
            (CsvQuery(p) /\ FetchAnswered(p) /\ ~provider.isDataLoaded)
            => /\ proc'[p].pc = "done"
               /\ proc'[p].ret = Resolved(Null)
               /\ proc'[p].nSet = 0
               /\ txQueue' = txQueue
               /\ store' = store]_vars
    /\ [][\A p \in Procs :
            (CsvQuery(p) /\ FetchAnswered(p) /\ provider.isDataLoaded
               /\ provider.loadingPromise = "fulfilled"
               /\ proc[p].arg \in DOMAIN provider.cachedMarkets)
            => /\ proc'[p].fetched = provider.cachedMarkets[proc[p].arg]
               /\ proc'[p].fetched # Null
               /\ HasPrice(proc'[p].fetched) => proc'[p].data = proc'[p].fetched]_vars
    /\ [](\A p \in Procs :
            (CsvQuery(p) /\ Returned(p) /\ proc[p].nFetch = 1)
            => proc[p].ret.val = proc[p].fetched)

\* a query during the load came back null with nothing cached; a later page load
\* found the dataset and a query after it returned Boston's statistics
QueryAfterLoadAnswered ==
    \E p \in Procs :
        /\ CsvQuery(p) /\ Returned(p)
        /\ proc[p].arg = "Boston, MA"
        /\ proc[p].nGet = 1 /\ proc[p].nFetch = 1 /\ proc[p].nSet = 1
        /\ proc[p].ret.val = StatsBoston
        /\ provider.isDataLoaded /\ provider.loadingPromise = "fulfilled"
        /\ dbInstance /\ idb = "ok"

\* a query has returned null while the load was in flight, nothing cached
C36_Witness ==
    \E p \in Procs :
        /\ CsvQuery(p) /\ Returned(p)
        /\ proc[p].ret.val = Null
        /\ provider.loadingPromise = "pending"
        /\ CsvStatsRecords = {}


\* the records written by BaseProvider.getMarketStats and by BaseProvider.searchProperties
WrittenBy(operation) == {r \in store : Len(r.key) = 3 /\ r.key[2] = operation}

\* C37: in getStats() every record written by BaseProvider.getMarketStats is counted
\* under byType['market-stats'], every record written by BaseProvider.searchProperties
\* under byType['search'], and only records of neither kind under 'other'.
C37_RecordsGroupedByOperation ==
    LET byType == StatsOf(store).byType IN
    /\ byType["market-stats"] = Cardinality(WrittenBy("market-stats"))
    /\ byType["search"] = Cardinality(WrittenBy("search"))
    /\ byType["other"] = Cardinality(store \ (WrittenBy("market-stats") \cup WrittenBy("search")))


\* ---------------------------------------------------------------------------
\* Two providers and the property search on one cache
\* ---------------------------------------------------------------------------

\* the providers asked for market statistics, and what each one's fetch returns:
\* payloads that tell the providers apart
IsolatedProviders == {"mock", "zillow-metrics"}

PayloadOf(id) == IF id = "mock" THEN StatsA ELSE StatsB

\* queries that differ only in letter case
CaseQueries == {"Austin", "AUSTIN", "austin"}

\* getMarketStats of two providers for one location and searchProperties of the
\* mock provider, one call at a time on a working cache
NextIsolation ==
    \/ \E p \in Procs, id \in IsolatedProviders, location \in Locations, forceRefresh \in BOOLEAN :
          CallGetMarketStats(p, id, location, forceRefresh)
    \/ \E p \in Procs, query \in CaseQueries, forceRefresh \in BOOLEAN :
          CallSearchProperties(p, "mock", query, forceRefresh)
    \/ \E p \in Procs : FetchReturns(p, PayloadOf(proc[p].prov))
    \/ \E p \in Procs, properties \in PropertyResults : FetchPropertiesReturns(p, properties)
    \/ OpenSucceeds
    \/ OpenFails
    \/ \E p \in Procs : DBReady(p, 0)
    \/ \E p \in Procs : DBFailed(p)
    \/ ExecGet
    \/ ExecPut
    \/ ExecDelete
    \/ \E p \in Procs : Finish(p)
    \/ \E d \in TickSteps : Tick(d)

SpecIsolation == Init /\ [][NextIsolation]_vars

\* the records of the property searches of provider id
SearchRecords(id) == {r \in store : Len(r.key) = 3 /\ r.key[1] = id /\ r.key[2] = "search"}

\* C38: a payload cached by one provider's getMarketStats(L) is never returned by
\* getMarketStats(L) of a provider with another id nor by a searchProperties call,
\* and search queries that differ only in letter case share one cache entry.
C38_CacheEntriesIsolated ==
    /\ \A p \in Procs :
          Returned(p) => proc[p].ret.val = PayloadOf(proc[p].prov)
    /\ \A p \in Procs :
          (proc[p].call = "searchProperties" /\ proc[p].pc = "done"
             /\ proc[p].ret.kind = "resolved")
          => proc[p].ret.val \in PropertyResults
    /\ \A r \in store :
          /\ r.data \in {StatsA, StatsB} => r.key = <<r.key[1], "market-stats", "Austin, TX">>
          /\ r.data \in {StatsA, StatsB} => r.data = PayloadOf(r.key[1])
          /\ r.data \in PropertyResults => r.key = <<"mock", "search", "austin">>
    /\ Cardinality(SearchRecords("mock")) <= 1

\* the cache holds the payloads of both providers side by side, and a search for
\* AUSTIN was answered from the entry another spelling of the query had written
C38_Witness ==
    \E p \in Procs :
        /\ proc[p].call = "searchProperties" /\ proc[p].pc = "done"
        /\ proc[p].arg = "AUSTIN"
        /\ proc[p].nGet = 1 /\ proc[p].nFetch = 0
        /\ proc[p].ret = Resolved(PropsOne)
        /\ HasRecord(store, <<"mock", "market-stats", "Austin, TX">>)
        /\ HasRecord(store, <<"zillow-metrics", "market-stats", "Austin, TX">>)


\* the last call the component made to the hook was clearResults()
ClearedLast ==
    \E i \in 1..Len(searchLog) :
        /\ searchLog[i].ev = "clear"
        /\ \A k \in (i + 1)..Len(searchLog) : searchLog[k].ev \notin {"search", "clear"}

\* C39: after clearResults() results stays empty and no error is set until the next
\* search() call, whatever timer was pending and whatever request was in flight.
C39_ClearedStaysEmpty ==
    ClearedLast => results = << >> /\ searchError = NoItem


\* no debounce timer is pending after clearResults()
ClearCancelsTimer == ClearedLast => timers = {}


\* C40: after uploadCSVFile has returned {success: true, markets: n}, getAllMarkets()
\* returns exactly n markets, one for each parsed row, also when rows share their
\* city and state or their id.
C40_EveryParsedRowListed ==
    \A p \in Procs :
        (proc[p].call = "uploadCSVFile" /\ proc[p].pc = "done" /\ proc[p].ret.val.success)
        => /\ Cardinality(getAllMarkets(provider)) = proc[p].ret.val.markets
           /\ getAllMarkets(provider) = {proc[p].data.items[i] : i \in 1..Len(proc[p].data.items)}

\* files whose rows differ in city and state are listed row by row
DistinctRowsListed ==
    \A p \in Procs :
        (proc[p].call = "uploadCSVFile" /\ proc[p].pc = "done" /\ proc[p].ret.val.success
           /\ \A i, j \in 1..Len(proc[p].data.items) :
                 proc[p].data.items[i].id = proc[p].data.items[j].id => i = j)
        => getAllMarkets(provider) = {proc[p].data.items[i] : i \in 1..Len(proc[p].data.items)}


====
